---- MODULE Spec2Model ----
(***************************************************************************)
(* A model of the ANF packet framework (src/anf): packets that encode and  *)
(* decode values to and from a byte stream through a tree of contexts.     *)
(*                                                                         *)
(* The model runs one top-level call at a time, as src/test.py does:       *)
(*   job "test"         encode into a BytesStream, reset, decode          *)
(*   job "sized"        sizeof(ctx) followed by encode_bytes(obj, ctx)     *)
(*   job "decode_bytes" decode_bytes(data, completely)                     *)
(* The top-level packet is a Sequence (bare, under a Struct, or under a    *)
(* StructAdapter); each await of a field's encode/decode is one step.      *)
(***************************************************************************)
EXTENDS Integers, Sequences, FiniteSets, TLC

\* ------------------------------------------------------------------ bounds
MaxLen == 2      \* longest byte string a user supplies for a bytes field
MaxLevel == 2    \* highest postpone level tried on a freely postponable field
MaxData == 3     \* longest input handed to decode_bytes

\* ------------------------------------------------------------------ values
\* Python values, tagged so that any two of them can be compared.
None == [t |-> "none", p |-> <<>>]
IntV(n) == [t |-> "int", p |-> <<n>>]
BytesV(b) == [t |-> "bytes", p |-> b]
\* Transformed._decode returns the coroutine of the inner decode, not awaited.
Coroutine == [t |-> "coroutine", p |-> <<>>]

BoolV(b) == [t |-> "bool", p |-> <<IF b THEN 1 ELSE 0>>]
IsInt(v) == v.t = "int"
IsBytes(v) == v.t = "bytes"
IntOf(v) == v.p[1]

RECURSIVE SumBytes(_)
SumBytes(b) == IF b = <<>> THEN 0 ELSE Head(b) + SumBytes(Tail(b))

RECURSIVE Zeros(_)
Zeros(n) == IF n <= 0 THEN <<>> ELSE <<0>> \o Zeros(n - 1)

\* errors (src/anf/errors.py) and the Python built-in ones the code lets escape
NoError == ""
\* PacketObjTypeError is a subclass of PacketEncodeError
IsPacketEncodeError(e) == e \in {"PacketEncodeError", "PacketObjTypeError"}

\* ---------------------------------------------------------------- contexts
\* The context tree of one call: ctxs[Root] is the context of the top-level
\* packet, the others are its children.  members is the root's name -> child
\* dictionary in insertion order; enc_partial and on_finish are the root's
\* metadata entries (has_md says whether they are installed).
Root == 1

Context(parent, value) == [parent |-> parent, value |-> value, encoded |-> None]

NewTree == [ctxs |-> <<Context(0, None)>>, members |-> <<>>,
            enc_partial |-> <<>>, on_finish |-> <<>>, has_md |-> FALSE]

register_val(S, c, value) == [S EXCEPT !.ctxs[c].value = value]

register_enc(S, c, data) == [S EXCEPT !.ctxs[c].encoded = BytesV(data)]

HasMember(S, name) == \E k \in 1..Len(S.members) : S.members[k].name = name

MemberId(S, name) ==
    S.members[CHOOSE k \in 1..Len(S.members) : S.members[k].name = name].id

\* Context.get_member on context c: the context id, or 0 for KeyError.
get_member(S, c, name) ==
    IF name = "" THEN c
    ELSE IF name = "_" THEN S.ctxs[c].parent
    ELSE IF c = Root /\ HasMember(S, name) THEN MemberId(S, name)
    ELSE 0

\* A field with no name (Renamed._name is None).
NoName == "<None>"

\* Context.make_child on the root: [err, id, S].
make_child(S, name, value) ==
    LET found == IF name = NoName THEN 0 ELSE get_member(S, Root, name) IN
    IF found = 0
    THEN LET id == Len(S.ctxs) + 1 IN
         [err |-> NoError, id |-> id,
          S |-> [S EXCEPT !.ctxs = Append(@, Context(Root, value)),
                          !.members = IF name = NoName THEN @
                                      ELSE Append(@, [name |-> name, id |-> id])]]
    ELSE IF value # None
    THEN [err |-> "AssertionError", id |-> found, S |-> S]
    ELSE [err |-> NoError, id |-> found, S |-> S]

\* ------------------------------------------------------- context parameters
\* CtxParam: a literal or a function of the context.  The functions are the
\* lambdas and paths the repository's packets are built with.
NoParam == [e |-> "none", n |-> 0, ref |-> "", v |-> None]
Lit(n) == [e |-> "lit", n |-> n, ref |-> "", v |-> IntV(n)]
LitV(v) == [e |-> "lit", n |-> 0, ref |-> "", v |-> v]
\* lambda ctx: len(eval_ctx_param(value, ctx))          (Const's default Bytes)
LenOfLit(v) == [e |-> "len_lit", n |-> 0, ref |-> "", v |-> v]
\* lambda ctx: ctx.parent.<ref>.value   /  this.<ref>
ValueOf(ref) == [e |-> "value", n |-> 0, ref |-> ref, v |-> None]
\* lambda ctx: len(ctx.parent.<ref>.value)
LenValueOf(ref) == [e |-> "len_value", n |-> 0, ref |-> ref, v |-> None]
\* lambda ctx: len(ctx.parent.<ref>.encoded)
LenEncodedOf(ref) == [e |-> "len_encoded", n |-> 0, ref |-> ref, v |-> None]
\* lambda ctx: self.sizeof(ctx.parent) - len(ctx.parent.data.encoded)   (Padded)
PadSize(size) == [e |-> "pad_size", n |-> size, ref |-> "data", v |-> None]
\* lambda ctx: ctx.parent.<ref>.value == v
ValueIs(ref, v) == [e |-> "value_is", n |-> 0, ref |-> ref, v |-> v]
\* lambda ctx: _hash_sum8(joined_enc_partial()(ctx))
HashSum8Partial == [e |-> "hash_sum8", n |-> 0, ref |-> "", v |-> None]

RECURSIVE Join(_)
Join(list) == IF list = <<>> THEN <<>> ELSE Head(list).p \o Join(Tail(list))

AllBytes(list) == \A k \in 1..Len(list) : IsBytes(list[k])

\* eval_ctx_param(param, ctx) for the child context c: [err, v].
eval_ctx_param(param, c, S) ==
    LET parent == S.ctxs[c].parent
        target == IF parent = 0 THEN 0 ELSE get_member(S, parent, param.ref)
        Fail(e) == [err |-> e, v |-> None]
        Ok(v) == [err |-> NoError, v |-> v]
    IN
    CASE param.e = "lit" -> Ok(param.v)
      [] param.e = "len_lit" -> Ok(IntV(Len(param.v.p)))
      [] param.e = "hash_sum8" ->
            IF parent = 0 THEN Fail("KeyError")
            ELSE IF ~S.has_md THEN Fail("TypeError")
            ELSE IF ~AllBytes(S.enc_partial) THEN Fail("TypeError")
            ELSE Ok(IntV(SumBytes(Join(S.enc_partial)) % 256))
      [] OTHER ->
            IF parent = 0 \/ target = 0 THEN Fail("KeyError")
            ELSE LET t == S.ctxs[target] IN
            CASE param.e = "value" ->
                    IF t.value = None THEN Fail("ValueError") ELSE Ok(t.value)
              [] param.e = "value_is" ->
                    IF t.value = None THEN Fail("ValueError")
                    ELSE Ok(BoolV(t.value = param.v))
              [] param.e = "len_value" ->
                    IF t.value = None THEN Fail("ValueError")
                    ELSE IF ~IsBytes(t.value) THEN Fail("TypeError")
                    ELSE Ok(IntV(Len(t.value.p)))
              [] param.e = "len_encoded" ->
                    IF ~IsBytes(t.encoded) THEN Fail("TypeError")
                    ELSE Ok(IntV(Len(t.encoded.p)))
              [] param.e = "pad_size" ->
                    IF ~IsBytes(t.encoded) THEN Fail("TypeError")
                    ELSE Ok(IntV(param.n - Len(t.encoded.p)))

\* ------------------------------------------------------------------ packets
UInt8 == [kind |-> "UInt8"]
VarInt == [kind |-> "VarInt"]
\* ZigZag: a PacketAdapter around VarInt
ZigZag == [kind |-> "ZigZag", wrapped |-> VarInt]
BytesPacket(size) == [kind |-> "Bytes", size |-> size]
GreedyBytesPacket == [kind |-> "GreedyBytes"]
NoOpPacket == [kind |-> "NoOp"]
Padding(size) == [kind |-> "Padding", size |-> size]
Virtual(value) == [kind |-> "Virtual", value |-> value]

AutoPacket(wrapped, value, validate_enc, validate_dec, override_enc, postpone_dec) ==
    [kind |-> "Auto", wrapped |-> wrapped, value |-> value,
     validate_enc |-> validate_enc, validate_dec |-> validate_dec,
     override_enc |-> override_enc, postpone_dec |-> postpone_dec]

\* A variant of Const that does not verify what it decodes.
Const_unverified(value, wrapped) == AutoPacket(wrapped, value, TRUE, FALSE, FALSE, FALSE)

\* A variant of Default that checks the user's value as Deduced does.
Default_validating(wrapped, value) == AutoPacket(wrapped, value, TRUE, FALSE, FALSE, FALSE)

\* A variant of Deduced that verifies what it decodes, as Const does.
Deduced_verifying(wrapped, value) == AutoPacket(wrapped, value, TRUE, TRUE, FALSE, FALSE)

\* A variant of Deduced that does not check the value the user gives.
Deduced_unvalidated(wrapped, value) ==
    AutoPacket(wrapped, value, FALSE, FALSE, FALSE, FALSE)

Const(value, wrapped) == AutoPacket(wrapped, value, TRUE, TRUE, FALSE, FALSE)
Default(wrapped, value) == AutoPacket(wrapped, value, FALSE, FALSE, TRUE, FALSE)
Deduced(wrapped, value) == AutoPacket(wrapped, value, TRUE, FALSE, FALSE, FALSE)

\* Checksum(wrapped, hash_func, data) with the default compute and validate:
\* data is kept as the parameter lambda ctx: hash_func(eval_ctx_param(data, ctx)).
Checksum(wrapped, data) ==
    [kind |-> "Checksum", wrapped |-> Deduced(wrapped, data), data |-> data,
     postpone_validation |-> FALSE]

\* Check(predicate): a PacketValidator around NoOpPacket
Check(predicate) ==
    [kind |-> "Check", wrapped |-> NoOpPacket, pred |-> predicate,
     postpone_validation |-> FALSE]

\* Dynamic(lambda ctx: cases[key(ctx)]): cases maps tags to packets, key is a
\* context parameter giving the tag.
Dynamic(cases, key) == [kind |-> "Dynamic", cases |-> cases, key |-> key]

\* enc_func is kept as a name: "id" (the default) or "twice" (b -> b + b).
Transformed(wrapped, dec_size, enc_size, enc_func) ==
    [kind |-> "Transformed", wrapped |-> wrapped, dec_size |-> dec_size,
     enc_size |-> enc_size, enc_func |-> enc_func]

\* _postpone(level) as it leaves the packet: AutoPacket sets _postpone_dec,
\* Checksum and PacketValidator set _postpone_validation (and do not forward
\* to the packet they wrap), the other kinds modelled here ignore it.
Packet_postpone(pkt) ==
    CASE pkt.kind = "Auto" -> [pkt EXCEPT !.postpone_dec = TRUE]
      [] pkt.kind \in {"Checksum", "Check"} ->
            [pkt EXCEPT !.postpone_validation = TRUE]
      [] OTHER -> pkt

Renamed(name, postpone_level, wrapped) ==
    [name |-> name, postpone_level |-> postpone_level, wrapped |-> wrapped]

\* name / packet
Named(name, pkt) == Renamed(name, 0, pkt)
Unnamed(pkt) == Renamed(NoName, 0, pkt)
\* postponed(packet, level), optionally renamed afterwards
postponed(name, pkt, level) == Renamed(name, level, Packet_postpone(pkt))

\* Packet objects are shared by reference: H is the heap of the objects made
\* so far, a reference is an index into it, and a Renamed object holds the
\* reference of the packet it wraps.  renamed() and postponed() give back the
\* heap as they leave it and the reference they return.

\* Renamed.__init__
RenamedObject(ref) ==
    [kind |-> "Renamed", name |-> NoName, postpone_level |-> 0, wrapped |-> ref]

\* postpone_level = None
NoLevel == -1

\* Renamed.create: an object that is a Renamed already is updated in place
\* and returned.
RECURSIVE Renamed_create(_, _, _, _)
Renamed_create(H, ref, name, postpone_level) ==
    IF H[ref].kind # "Renamed"
    THEN Renamed_create(Append(H, RenamedObject(ref)), Len(H) + 1, name, postpone_level)
    ELSE [H |-> [H EXCEPT ![ref].name = IF name # NoName THEN name ELSE @,
                          ![ref].postpone_level =
                              IF postpone_level # NoLevel THEN postpone_level ELSE @],
          ref |-> ref]

\* self._postpone(level): a wrapper forwards to the object it wraps, the
\* other packets set their own flag.
RECURSIVE IPacket_postpone(_, _)
IPacket_postpone(H, ref) ==
    IF H[ref].kind = "Renamed" THEN IPacket_postpone(H, H[ref].wrapped)
    ELSE [H EXCEPT ![ref] = Packet_postpone(@)]

\* IPacket.renamed(name), name / packet
IPacket_renamed(H, ref, name) == Renamed_create(H, ref, name, NoLevel)

\* IPacket.postponed(level)
IPacket_postponed(H, ref, level) ==
    Renamed_create(IPacket_postpone(H, ref), ref, NoName, level)

\* The object at ref as a field of a Sequence: its name and postpone_level
\* properties and the packet that encodes and decodes.
FieldAt(H, ref) ==
    IF H[ref].kind = "Renamed"
    THEN Renamed(H[ref].name, H[ref].postpone_level, H[H[ref].wrapped])
    ELSE Unnamed(H[ref])

\* A variant of the lookup that lets the KeyError through as it is.
Dynamic_lookup_unmapped(cases, key, exc) ==
    IF key.err # NoError THEN [err |-> key.err, pkt |-> NoOpPacket]
    ELSE IF ~IsInt(key.v) \/ IntOf(key.v) \notin DOMAIN cases
    THEN [err |-> "KeyError", pkt |-> NoOpPacket]
    ELSE [err |-> NoError, pkt |-> cases[IntOf(key.v)]]

\* The packet expression cases[key] under the try of Dynamic.get_packet, for
\* the outcome [err, v] of evaluating the key.
Dynamic_lookup(cases, key, exc) ==
    IF key.err = "KeyError" THEN [err |-> exc, pkt |-> NoOpPacket]
    ELSE IF key.err # NoError THEN [err |-> key.err, pkt |-> NoOpPacket]
    ELSE IF ~IsInt(key.v) \/ IntOf(key.v) \notin DOMAIN cases
    THEN [err |-> exc, pkt |-> NoOpPacket]
    ELSE [err |-> NoError, pkt |-> cases[IntOf(key.v)]]

\* Dynamic.get_packet(ctx, exc): a KeyError of the packet expression is
\* raised as exc, any other error as it is.  [err, pkt]
Dynamic_get_packet(pkt, c, S, exc) ==
    Dynamic_lookup(pkt.cases, eval_ctx_param(pkt.key, c, S), exc)

\* ------------------------------------------------------------------ encode
EncFail(e, S) == [err |-> e, out |-> <<>>, S |-> S]
EncOk(out, S) == [err |-> NoError, out |-> out, S |-> S]

\* PyStructPacket("B")._encode
PyStructPacket_encode(obj, c, S) ==
    IF ~IsInt(obj) THEN EncFail("PacketObjTypeError", S)
    ELSE IF IntOf(obj) < 0 \/ IntOf(obj) > 255 THEN EncFail("PacketEncodeError", S)
    ELSE EncOk(<<IntOf(obj)>>, register_enc(S, c, <<IntOf(obj)>>))

\* A variant of the loop that emits the most significant group first.
RECURSIVE VarIntBytes_msb_first(_)
VarIntBytes_msb_first(n) ==
    IF n >= 128 THEN VarIntBytes_msb_first(n \div 128) \o <<n % 128>>
    ELSE <<n + 128>>

RECURSIVE VarIntBytes(_)
VarIntBytes(n) ==
    IF n >= 128 THEN <<(n % 128) + 128>> \o VarIntBytes(n \div 128) ELSE <<n>>

VarInt_encode(obj, c, S) ==
    IF ~IsInt(obj) THEN EncFail("PacketObjTypeError", S)
    ELSE IF IntOf(obj) < 0 THEN EncFail("PacketEncodeError", S)
    ELSE LET data == VarIntBytes(IntOf(obj)) IN EncOk(data, register_enc(S, c, data))

BytesPacket_encode(pkt, obj, c, S) ==
    IF ~IsBytes(obj) THEN EncFail("PacketObjTypeError", S)
    ELSE LET sz == eval_ctx_param(pkt.size, c, S) IN
         IF sz.err # NoError THEN EncFail(sz.err, S)
         ELSE IF ~IsInt(sz.v) \/ Len(obj.p) # IntOf(sz.v) THEN EncFail("PacketEncodeError", S)
         ELSE EncOk(obj.p, register_enc(S, c, obj.p))

GreedyBytesPacket_encode(obj, c, S) ==
    IF ~IsBytes(obj) THEN EncFail("PacketObjTypeError", S)
    ELSE EncOk(obj.p, register_enc(S, c, obj.p))

NoOpPacket_encode(obj, c, S) ==
    IF obj # None THEN EncFail("PacketObjTypeError", S)
    ELSE EncOk(<<>>, register_enc(S, c, <<>>))

Padding_encode(pkt, obj, c, S) ==
    IF obj # None THEN EncFail("PacketObjTypeError", S)
    ELSE LET sz == eval_ctx_param(pkt.size, c, S) IN
         IF sz.err # NoError THEN EncFail(sz.err, S)
         ELSE IF IntOf(sz.v) < 0 THEN EncFail("PacketEncodeError", S)
         ELSE EncOk(Zeros(IntOf(sz.v)), register_enc(S, c, Zeros(IntOf(sz.v))))

Virtual_encode(pkt, obj, c, S) ==
    LET value == eval_ctx_param(pkt.value, c, S) IN
    IF value.err # NoError THEN EncFail(value.err, S)
    ELSE LET S1 == register_val(S, c, value.v) IN
         IF obj # None /\ obj # value.v
         THEN EncFail(IF obj.t # value.v.t THEN "PacketObjTypeError"
                      ELSE "PacketEncodeError", S1)
         ELSE EncOk(<<>>, register_enc(S1, c, <<>>))

\* A variant of AutoPacket._modify_enc that leaves ctx.value as the user gave it.
AutoPacket_modify_enc_unregistered(pkt, obj, c, S) ==
    LET value == eval_ctx_param(pkt.value, c, S) IN
    IF value.err # NoError THEN [err |-> value.err, v |-> None, S |-> S]
    ELSE IF pkt.validate_enc /\ obj # None /\ obj # value.v
    THEN [err |-> "PacketEncodeError", v |-> None, S |-> S]
    ELSE [err |-> NoError,
          v |-> IF pkt.override_enc /\ obj # None THEN obj ELSE value.v,
          S |-> S]

\* AutoPacket._modify_enc: [err, v, S]
AutoPacket_modify_enc(pkt, obj, c, S) ==
    LET value == eval_ctx_param(pkt.value, c, S) IN
    IF value.err # NoError THEN [err |-> value.err, v |-> None, S |-> S]
    ELSE IF pkt.validate_enc /\ obj # None /\ obj # value.v
    THEN [err |-> IF obj.t # value.v.t THEN "PacketObjTypeError"
                  ELSE "PacketEncodeError", v |-> None, S |-> S]
    ELSE LET v == IF pkt.override_enc /\ obj # None THEN obj ELSE value.v IN
         [err |-> NoError, v |-> v, S |-> register_val(S, c, v)]

RECURSIVE Packet_encode(_, _, _, _)

\* IPacket.encode with a context given: [err, out, S]
IPacket_encode(pkt, obj, c, S) == Packet_encode(pkt, obj, c, register_val(S, c, obj))

\* Transformed._encode: the wrapped packet encodes into a substream, whose
\* data is sent as it is (enc_func is not applied).
Transformed_encode(pkt, obj, c, S) == IPacket_encode(pkt.wrapped, obj, c, S)

\* Dynamic._encode: the packet found is run through its public encode
Dynamic_encode(pkt, obj, c, S) ==
    LET g == Dynamic_get_packet(pkt, c, S, "PacketEncodeError") IN
    IF g.err # NoError THEN EncFail(g.err, S)
    ELSE IPacket_encode(g.pkt, obj, c, S)

\* ZigZag._modify_enc: obj <<= 1; if obj < 0: obj = ~obj
ZigZag_modify_enc(n) == IF 2 * n < 0 THEN -(2 * n) - 1 ELSE 2 * n

\* PacketAdapter._encode for ZigZag; shifting anything but an int raises
ZigZag_encode(pkt, obj, c, S) ==
    IF ~IsInt(obj) THEN EncFail("TypeError", S)
    ELSE Packet_encode(pkt.wrapped, IntV(ZigZag_modify_enc(IntOf(obj))), c, S)

\* PacketAdapter._encode for AutoPacket
AutoPacket_encode(pkt, obj, c, S) ==
    LET m == AutoPacket_modify_enc(pkt, obj, c, S) IN
    IF m.err # NoError THEN EncFail(m.err, m.S)
    ELSE Packet_encode(pkt.wrapped, m.v, c, m.S)

\* A validation queued on the enclosing Sequence's on_finish: the closure
\* keeps the packet, the context and the decoded object.
Validation(pkt, c, obj) == [pkt |-> pkt, c |-> c, obj |-> obj]

\* ctx.parent.get_md("on_finish").add(callback): [err, S].  get_md gives
\* None when the parent holds no on_finish, which the caller may assert on.
on_finish_add(S, c, callback, asserted) ==
    IF S.ctxs[c].parent = 0 THEN [err |-> "AttributeError", S |-> S]
    ELSE IF ~S.has_md
    THEN [err |-> IF asserted THEN "AssertionError" ELSE "AttributeError", S |-> S]
    ELSE [err |-> NoError, S |-> [S EXCEPT !.on_finish = Append(@, callback)]]

\* Checksum._validate_func: validate(ctx, ctx.value, hashed(ctx)) with the
\* default validate, value == hashed: [err, ok]
Checksum_validate_func(pkt, c, S) ==
    LET hashed == eval_ctx_param(pkt.data, c, S) IN
    IF hashed.err # NoError THEN [err |-> hashed.err, ok |-> FALSE]
    ELSE [err |-> NoError, ok |-> S.ctxs[c].value = hashed.v]

\* Checksum._validate: the error it raises, if any.  When the validation
\* fails a PacketEncodeError is constructed and dropped: there is no raise.
Checksum_validate(pkt, c, S) ==
    LET f == Checksum_validate_func(pkt, c, S) IN
    IF f.err # NoError THEN f.err
    ELSE IF ~f.ok THEN NoError
    ELSE NoError

\* PacketValidator.validate with Check._validate: the error it raises, if any
PacketValidator_validate(pkt, c, S) ==
    LET ok == eval_ctx_param(pkt.pred, c, S) IN
    IF ok.err # NoError THEN ok.err
    ELSE IF ok.v = BoolV(FALSE) THEN "PacketInvalidError"
    ELSE NoError

\* PacketValidator._encode
PacketValidator_encode(pkt, obj, c, S) ==
    IF ~pkt.postpone_validation
    THEN LET e == PacketValidator_validate(pkt, c, S) IN
         IF e # NoError THEN EncFail(e, S)
         ELSE Packet_encode(pkt.wrapped, obj, c, S)
    ELSE LET a == on_finish_add(S, c, Validation(pkt, c, None), TRUE) IN
         IF a.err # NoError THEN EncFail(a.err, S)
         ELSE Packet_encode(pkt.wrapped, obj, c, a.S)

\* Checksum._encode
Checksum_encode(pkt, obj, c, S) ==
    LET r == Packet_encode(pkt.wrapped, obj, c, S) IN
    IF r.err # NoError THEN r
    ELSE IF pkt.postpone_validation
    THEN LET a == on_finish_add(r.S, c, Validation(pkt, c, None), FALSE) IN
         IF a.err # NoError THEN EncFail(a.err, r.S) ELSE [r EXCEPT !.S = a.S]
    ELSE LET e == Checksum_validate(pkt, c, r.S) IN
         IF e # NoError THEN EncFail(e, r.S) ELSE r

\* packet._encode(stream, obj, ctx), by the packet's class
Packet_encode(pkt, obj, c, S) ==
    CASE pkt.kind = "UInt8" -> PyStructPacket_encode(obj, c, S)
      [] pkt.kind = "VarInt" -> VarInt_encode(obj, c, S)
      [] pkt.kind = "Bytes" -> BytesPacket_encode(pkt, obj, c, S)
      [] pkt.kind = "GreedyBytes" -> GreedyBytesPacket_encode(obj, c, S)
      [] pkt.kind = "NoOp" -> NoOpPacket_encode(obj, c, S)
      [] pkt.kind = "Padding" -> Padding_encode(pkt, obj, c, S)
      [] pkt.kind = "Virtual" -> Virtual_encode(pkt, obj, c, S)
      [] pkt.kind = "Auto" -> AutoPacket_encode(pkt, obj, c, S)
      [] pkt.kind = "Transformed" -> Transformed_encode(pkt, obj, c, S)
      [] pkt.kind = "Checksum" -> Checksum_encode(pkt, obj, c, S)
      [] pkt.kind = "Check" -> PacketValidator_encode(pkt, obj, c, S)
      [] pkt.kind = "Dynamic" -> Dynamic_encode(pkt, obj, c, S)
      [] pkt.kind = "ZigZag" -> ZigZag_encode(pkt, obj, c, S)

\* ------------------------------------------------------------------ sizeof
SizeFail(e) == [err |-> e, n |-> 0]
SizeOk(n) == [err |-> NoError, n |-> n]

\* IPacket._sizeof: len(ctx.encoded); only KeyError is turned into
\* NotSizeableError, and len(None) raises TypeError.
IPacket_sizeof(c, S) ==
    IF IsBytes(S.ctxs[c].encoded) THEN SizeOk(Len(S.ctxs[c].encoded.p))
    ELSE SizeFail("TypeError")

\* BytesPacket._sizeof, Padding._sizeof: eval_ctx_param(self._size, ctx)
Param_sizeof(size, c, S) ==
    LET sz == eval_ctx_param(size, c, S) IN
    IF sz.err # NoError THEN SizeFail(sz.err) ELSE SizeOk(IntOf(sz.v))

RECURSIVE Packet_sizeof(_, _, _)

Transformed_sizeof(pkt, c, S) ==
    LET dec_size == eval_ctx_param(pkt.dec_size, c, S)
        enc_size == eval_ctx_param(pkt.enc_size, c, S)
        dec_none == pkt.dec_size = NoParam
        enc_none == pkt.enc_size = NoParam
        cnt_nones == (IF dec_none THEN 1 ELSE 0) + (IF enc_none THEN 1 ELSE 0)
        sizeable == cnt_nones = 1 \/ (cnt_nones = 0 /\ dec_size.v = enc_size.v)
    IN
    IF ~dec_none /\ dec_size.err # NoError THEN SizeFail(dec_size.err)
    ELSE IF ~enc_none /\ enc_size.err # NoError THEN SizeFail(enc_size.err)
    ELSE IF sizeable
    THEN IF ~enc_none /\ IntOf(enc_size.v) # 0 THEN SizeOk(IntOf(enc_size.v))
         ELSE SizeOk(IntOf(dec_size.v))
    ELSE Packet_sizeof(pkt.wrapped, c, S)

\* .sizeof(ctx) of what get_packet gave, unless it raised
Found_sizeof(g, c, S) ==
    IF g.err # NoError THEN SizeFail(g.err) ELSE Packet_sizeof(g.pkt, c, S)

\* Dynamic._sizeof
Dynamic_sizeof(pkt, c, S) ==
    Found_sizeof(Dynamic_get_packet(pkt, c, S, "NotSizeableError"), c, S)

\* packet._sizeof(ctx), by the packet's class: [err, n]
Packet_sizeof(pkt, c, S) ==
    CASE pkt.kind = "UInt8" -> SizeOk(1)
      [] pkt.kind \in {"VarInt", "GreedyBytes"} -> IPacket_sizeof(c, S)
      [] pkt.kind \in {"Bytes", "Padding"} -> Param_sizeof(pkt.size, c, S)
      [] pkt.kind \in {"NoOp", "Virtual"} -> SizeOk(0)
      [] pkt.kind \in {"Auto", "Checksum", "Check", "ZigZag"} ->
            Packet_sizeof(pkt.wrapped, c, S)
      [] pkt.kind = "Transformed" -> Transformed_sizeof(pkt, c, S)
      [] pkt.kind = "Dynamic" -> Dynamic_sizeof(pkt, c, S)

\* ------------------------------------------------------------------ decode
\* A decode reads from `rest`, the bytes of the stream from its position on:
\* [err, v, used, S], used being the number of bytes taken from the stream.
DecFail(e, S) == [err |-> e, v |-> None, used |-> 0, S |-> S]
DecOk(v, used, S) == [err |-> NoError, v |-> v, used |-> used, S |-> S]

\* SyncStream.recv(size) on a BytesStream: exactly size bytes, StreamReadError
\* when the stream ends before; a size <= 0 reads nothing.
CanRecv(rest, size) == size <= Len(rest)
Recv(rest, size) == IF size <= 0 THEN <<>> ELSE SubSeq(rest, 1, size)

\* PyStructPacket("B")._decode
PyStructPacket_decode(rest, c, S) ==
    IF ~CanRecv(rest, 1) THEN DecFail("StreamReadError", S)
    ELSE DecOk(IntV(rest[1]), 1, register_enc(S, c, Recv(rest, 1)))

RECURSIVE VarIntNum(_)
VarIntNum(data) ==
    IF data = <<>> THEN 0 ELSE (Head(data) % 128) + 128 * VarIntNum(Tail(data))

\* A variant of VarInt._decode that stops at the end of the stream and makes
\* the number of the bytes it got.
VarInt_decode_short(rest, c, S) ==
    LET ends == {k \in 1..Len(rest) : rest[k] < 128} IN
    IF rest = <<>> THEN DecFail("StreamReadError", S)
    ELSE IF ends = {} THEN DecOk(IntV(VarIntNum(rest)), Len(rest), S)
    ELSE LET last == CHOOSE k \in ends : \A j \in ends : k <= j IN
         DecOk(IntV(VarIntNum(SubSeq(rest, 1, last))), last, S)

\* VarInt._decode: bytes are read up to the first one without 0x80; the
\* bytes read are not registered as ctx.encoded.
VarInt_decode(rest, c, S) ==
    LET ends == {k \in 1..Len(rest) : rest[k] < 128} IN
    IF ends = {} THEN DecFail("StreamReadError", S)
    ELSE LET last == CHOOSE k \in ends : \A j \in ends : k <= j IN
         DecOk(IntV(VarIntNum(SubSeq(rest, 1, last))), last, S)

BytesPacket_decode(pkt, rest, c, S) ==
    LET sz == Param_sizeof(pkt.size, c, S) IN
    IF sz.err # NoError THEN DecFail(sz.err, S)
    ELSE IF ~CanRecv(rest, sz.n) THEN DecFail("StreamReadError", S)
    ELSE DecOk(BytesV(Recv(rest, sz.n)), Len(Recv(rest, sz.n)),
               register_enc(S, c, Recv(rest, sz.n)))

\* GreedyBytesPacket._decode: stream.recv() reads to the end of the stream
GreedyBytesPacket_decode(rest, c, S) ==
    DecOk(BytesV(rest), Len(rest), register_enc(S, c, rest))

NoOpPacket_decode(rest, c, S) == DecOk(None, 0, register_enc(S, c, <<>>))

Padding_decode(pkt, rest, c, S) ==
    LET sz == Param_sizeof(pkt.size, c, S) IN
    IF sz.err # NoError THEN DecFail(sz.err, S)
    ELSE IF sz.n < 0 THEN DecFail("AssertionError", S)
    ELSE IF ~CanRecv(rest, sz.n) THEN DecFail("StreamReadError", S)
    ELSE DecOk(None, sz.n, register_enc(S, c, Recv(rest, sz.n)))

Virtual_decode(pkt, rest, c, S) ==
    LET value == eval_ctx_param(pkt.value, c, S) IN
    IF value.err # NoError THEN DecFail(value.err, register_enc(S, c, <<>>))
    ELSE DecOk(value.v, 0, register_enc(S, c, <<>>))

\* validate() of AutoPacket._modify_dec: the error it raises, if any
AutoPacket_validate(pkt, c, obj, S) ==
    LET value == eval_ctx_param(pkt.value, c, S) IN
    IF value.err # NoError THEN value.err
    ELSE IF value.v # obj THEN "PacketDecodeError"
    ELSE NoError

\* AutoPacket._modify_dec: [err, S]
AutoPacket_modify_dec(pkt, obj, c, S) ==
    IF ~pkt.validate_dec THEN [err |-> NoError, S |-> S]
    ELSE IF pkt.postpone_dec
    THEN on_finish_add(S, c, Validation(pkt, c, obj), TRUE)
    ELSE [err |-> AutoPacket_validate(pkt, c, obj, S), S |-> S]

RECURSIVE Packet_decode(_, _, _, _)

\* IPacket.decode with a context given: the result is registered as ctx.value
IPacket_decode(pkt, rest, c, S) ==
    LET r == Packet_decode(pkt, rest, c, S) IN
    IF r.err # NoError THEN r ELSE [r EXCEPT !.S = register_val(r.S, c, r.v)]

\* Dynamic._decode: the packet found is run through its public decode
Dynamic_decode(pkt, rest, c, S) ==
    LET g == Dynamic_get_packet(pkt, c, S, "PacketDecodeError") IN
    IF g.err # NoError THEN DecFail(g.err, S)
    ELSE IPacket_decode(g.pkt, rest, c, S)

\* A variant of ZigZag._modify_dec that only shifts.
ZigZag_modify_dec_unsigned(m) == m \div 2

\* ZigZag._modify_dec: if obj & 1: obj = ~obj; obj >>= 1
ZigZag_modify_dec(m) == IF m % 2 = 1 THEN (-m - 1) \div 2 ELSE m \div 2

\* self._modify_dec(...) applied to what the wrapped decode gave, unless it raised
ZigZag_decoded(r) ==
    IF r.err # NoError THEN r ELSE [r EXCEPT !.v = IntV(ZigZag_modify_dec(IntOf(r.v)))]

\* PacketAdapter._decode for ZigZag
ZigZag_decode(pkt, rest, c, S) ==
    ZigZag_decoded(Packet_decode(pkt.wrapped, rest, c, S))

\* PacketAdapter._decode for AutoPacket
AutoPacket_decode(pkt, rest, c, S) ==
    LET r == Packet_decode(pkt.wrapped, rest, c, S) IN
    IF r.err # NoError THEN r
    ELSE LET m == AutoPacket_modify_dec(pkt, r.v, c, r.S) IN
         [r EXCEPT !.err = m.err, !.S = m.S]

\* Transformed._decode: sizeof(ctx) bytes are read into a substream and the
\* coroutine of the wrapped decode is returned without being awaited.
Transformed_decode(pkt, rest, c, S) ==
    LET sz == Transformed_sizeof(pkt, c, S) IN
    IF sz.err # NoError THEN DecFail(sz.err, S)
    ELSE IF ~CanRecv(rest, sz.n) THEN DecFail("StreamReadError", S)
    ELSE DecOk(Coroutine, Len(Recv(rest, sz.n)), S)

\* A variant of PacketValidator._decode that validates at the field even
\* when the validation is postponed.
PacketValidator_decode_eager(pkt, rest, c, S) ==
    LET r == Packet_decode(pkt.wrapped, rest, c, S) IN
    IF r.err # NoError THEN r
    ELSE [r EXCEPT !.err = PacketValidator_validate(pkt, c, r.S)]

\* PacketValidator._decode
PacketValidator_decode(pkt, rest, c, S) ==
    LET r == Packet_decode(pkt.wrapped, rest, c, S) IN
    IF r.err # NoError THEN r
    ELSE IF ~pkt.postpone_validation
    THEN [r EXCEPT !.err = PacketValidator_validate(pkt, c, r.S)]
    ELSE LET a == on_finish_add(register_val(r.S, c, r.v), c,
                                Validation(pkt, c, None), TRUE)
         IN [r EXCEPT !.err = a.err, !.S = a.S]

\* Checksum._decode
Checksum_decode(pkt, rest, c, S) ==
    LET r == Packet_decode(pkt.wrapped, rest, c, S) IN
    IF r.err # NoError THEN r
    ELSE IF pkt.postpone_validation
    THEN LET a == on_finish_add(r.S, c, Validation(pkt, c, None), FALSE) IN
         [r EXCEPT !.err = a.err, !.S = a.S]
    ELSE LET S1 == register_val(r.S, c, r.v)
             e == Checksum_validate(pkt, c, S1)
         IN [r EXCEPT !.err = e, !.S = S1]

\* packet._decode(stream, ctx), by the packet's class
Packet_decode(pkt, rest, c, S) ==
    CASE pkt.kind = "UInt8" -> PyStructPacket_decode(rest, c, S)
      [] pkt.kind = "VarInt" -> VarInt_decode(rest, c, S)
      [] pkt.kind = "Bytes" -> BytesPacket_decode(pkt, rest, c, S)
      [] pkt.kind = "GreedyBytes" -> GreedyBytesPacket_decode(rest, c, S)
      [] pkt.kind = "NoOp" -> NoOpPacket_decode(rest, c, S)
      [] pkt.kind = "Padding" -> Padding_decode(pkt, rest, c, S)
      [] pkt.kind = "Virtual" -> Virtual_decode(pkt, rest, c, S)
      [] pkt.kind = "Auto" -> AutoPacket_decode(pkt, rest, c, S)
      [] pkt.kind = "Transformed" -> Transformed_decode(pkt, rest, c, S)
      [] pkt.kind = "Checksum" -> Checksum_decode(pkt, rest, c, S)
      [] pkt.kind = "Check" -> PacketValidator_decode(pkt, rest, c, S)
      [] pkt.kind = "Dynamic" -> Dynamic_decode(pkt, rest, c, S)
      [] pkt.kind = "ZigZag" -> ZigZag_decode(pkt, rest, c, S)

\* ---------------------------------------------------------------- Sequence
Indices(fields) == [i \in 1..Len(fields) |-> i]

RECURSIVE ChildrenFrom(_, _, _, _, _)
ChildrenFrom(fields, obj, i, cids, S) ==
    IF i > Len(fields) THEN [err |-> NoError, cids |-> cids, S |-> S]
    ELSE LET value == IF obj = <<>> THEN None ELSE obj[i]
             made == make_child(S, fields[i].name, value)
         IN IF made.err # NoError THEN [err |-> made.err, cids |-> cids, S |-> made.S]
            ELSE ChildrenFrom(fields, obj, i + 1, Append(cids, made.id), made.S)

\* A variant of Sequence._children_contexts_list that makes the children
\* without their values.
Sequence_children_contexts_list_bare(fields, obj, S) ==
    ChildrenFrom(fields, <<>>, 1, <<>>, S)

\* Sequence._children_contexts_list(ctx, obj): every field's child context is
\* made, in declaration order, before any field runs.  obj = <<>> stands for
\* obj = None.  [err, cids, S]
Sequence_children_contexts_list(fields, obj, S) == ChildrenFrom(fields, obj, 1, <<>>, S)

\* A variant of the sort that only tells the postponed fields from the others.
SortedFrom_two_groups(fields, level) ==
    SelectSeq(Indices(fields), LAMBDA i : fields[i].postpone_level = 0)
        \o SelectSeq(Indices(fields), LAMBDA i : fields[i].postpone_level > 0)

RECURSIVE SortedFrom(_, _)
SortedFrom(fields, level) ==
    IF \A i \in 1..Len(fields) : fields[i].postpone_level < level THEN <<>>
    ELSE SelectSeq(Indices(fields), LAMBDA i : fields[i].postpone_level = level)
         \o SortedFrom(fields, level + 1)

\* A variant of the sort that is not stable: within a level, the field
\* declared last comes first.
RECURSIVE SortedBackFrom(_, _)
SortedBackFrom(fields, level) ==
    IF \A i \in 1..Len(fields) : fields[i].postpone_level < level THEN <<>>
    ELSE LET same == SelectSeq(Indices(fields),
                               LAMBDA i : fields[i].postpone_level = level)
         IN [k \in 1..Len(same) |-> same[Len(same) + 1 - k]]
            \o SortedBackFrom(fields, level + 1)

SortedByPostponeLevel_unstable(fields) == SortedBackFrom(fields, 0)

\* sorted(enumerate(...), key=postpone_level): a stable sort of the indices
SortedByPostponeLevel(fields) == SortedFrom(fields, 0)

\* A variant of the test that sends every Sequence down the single-pass path.
Optimized_always(fields) == \A i \in 1..Len(fields) : fields[i].postpone_level >= 0

\* all(field.postpone_level == 0 for field in self._fields)
Optimized(fields) == \A i \in 1..Len(fields) : fields[i].postpone_level = 0

\* Variants of the two orders below: encode in declaration order whatever the
\* levels, decode sorted by postpone level.
EncodeOrder_declared(fields) == Indices(fields)
DecodeOrder_by_level(fields) == SortedByPostponeLevel(fields)

\* The order in which Sequence._encode invokes the fields' encode.
EncodeOrder(fields) ==
    IF Optimized(fields) THEN Indices(fields) ELSE SortedByPostponeLevel(fields)

\* The order in which Sequence._decode invokes the fields' decode.
DecodeOrder(fields) == Indices(fields)

\* [b''] * len(self._fields)
EmptyPartial(fields) == [i \in 1..Len(fields) |-> BytesV(<<>>)]

\* Event.fire: the callbacks run in subscription order; the first error ends it.
RECURSIVE Event_fire(_, _)
Event_fire(on_finish, S) ==
    IF on_finish = <<>> THEN NoError
    ELSE LET cb == Head(on_finish)
             e == CASE cb.pkt.kind = "Auto" ->
                           AutoPacket_validate(cb.pkt, cb.c, cb.obj, S)
                    [] cb.pkt.kind = "Checksum" ->
                           Checksum_validate(cb.pkt, cb.c, S)
                    [] cb.pkt.kind = "Check" ->
                           PacketValidator_validate(cb.pkt, cb.c, S)
         IN IF e # NoError THEN e ELSE Event_fire(Tail(on_finish), S)

\* ctx.del_md("on_finish"); ctx.del_md("enc_partial")
del_md(S) == [S EXCEPT !.has_md = FALSE, !.on_finish = <<>>, !.enc_partial = <<>>]

RECURSIVE SizeFrom(_, _, _, _)
SizeFrom(fields, cids, i, S) ==
    IF i > Len(fields) THEN SizeOk(0)
    ELSE LET one == Packet_sizeof(fields[i].wrapped, cids[i], S) IN
         IF one.err # NoError THEN one
         ELSE LET more == SizeFrom(fields, cids, i + 1, S) IN
              IF more.err # NoError THEN more ELSE SizeOk(one.n + more.n)

\* Sequence._sizeof(ctx): the children are made in ctx, then summed. [err, n, S]
Sequence_sizeof(fields, S) ==
    LET ch == Sequence_children_contexts_list(fields, <<>>, S) IN
    IF ch.err # NoError THEN [err |-> ch.err, n |-> 0, S |-> ch.S]
    ELSE LET sz == SizeFrom(fields, ch.cids, 1, ch.S) IN
         [err |-> sz.err, n |-> sz.n, S |-> ch.S]

\* ------------------------------------------------------ Struct, StructAdapter
Names(fields) == {fields[i].name : i \in 1..Len(fields)} \ {NoName}

\* Struct._modify_enc: the mapping becomes a positional list; None stands for
\* a missing key as well as for an unnamed field.
\* A variant of Struct._modify_enc that hands the k-th named field's entry to
\* position k, not skipping the unnamed fields.
Struct_modify_enc_packed(fields, mapping) ==
    LET named == {i \in 1..Len(fields) : fields[i].name # NoName}
        kth(k) == CHOOSE i \in named : Cardinality({j \in named : j <= i}) = k
    IN [i \in 1..Len(fields) |->
           IF i > Cardinality(named) THEN None
           ELSE IF fields[kth(i)].name \in DOMAIN mapping THEN mapping[fields[kth(i)].name]
           ELSE None]

Struct_modify_enc(fields, mapping) ==
    [i \in 1..Len(fields) |->
        IF fields[i].name = NoName THEN None
        ELSE IF fields[i].name \in DOMAIN mapping THEN mapping[fields[i].name]
        ELSE None]

\* Struct._modify_dec: one entry per field name; a later field of the same
\* name overwrites an earlier one.
Struct_modify_dec(fields, list) ==
    [name \in Names(fields) |->
        list[CHOOSE i \in 1..Len(fields) :
                /\ fields[i].name = name
                /\ \A j \in 1..Len(fields) : fields[j].name = name => j <= i]]

\* StructAdapter._modify_enc: {master_field: obj}
StructAdapter_modify_enc(fields, master, obj) ==
    [name \in Names(fields) |-> IF name = master THEN obj ELSE None]

\* StructAdapter._modify_dec: obj[master_field]
StructAdapter_modify_dec(master, mapping) == mapping[master]

\* Discriminated._modify_enc for a 2-tuple: dict(type=obj[0], value=obj[1])
Discriminated_modify_enc(obj) ==
    [name \in {"type", "value"} |-> IF name = "type" THEN obj[1] ELSE obj[2]]

\* Discriminated._modify_dec: (obj["type"], obj["value"])
Discriminated_modify_dec(mapping) == <<mapping["type"], mapping["value"]>>

\* ----------------------------------------------------------------- packets
\* The top-level packets the model runs.  form is the class of the top-level
\* object (a bare Sequence, a Struct over it, or a StructAdapter over that);
\* master is the StructAdapter's master field; size is the StructAdapter's
\* own _sizeof parameter when it overrides it (Padded); free says that the
\* fields take every assignment of postpone levels instead of the declared one.
Top(form, master, size, free, fields) ==
    [form |-> form, master |-> master, size |-> size, free |-> free, fields |-> fields]

\* Sequence(ByteSum, UInt8, ByteSum), each field postponed(...) to any level,
\* ByteSum being Deduced(UInt8, lambda ctx: _hash_sum8(joined_enc_partial()(ctx)))
FreeSequence ==
    Top("Sequence", "", NoParam, TRUE,
        <<Unnamed(Deduced(UInt8, HashSum8Partial)),
          Unnamed(UInt8),
          Unnamed(Deduced(UInt8, HashSum8Partial))>>)

\* Sequence(VarInt, UInt8)
VarIntSequence == Top("Sequence", "", NoParam, FALSE, <<Unnamed(VarInt), Unnamed(UInt8)>>)

\* Struct("a" / UInt8, Const(b"\x01", Bytes(1)), "b" / Default(Bytes(1), b"\x02"))
PlainStruct ==
    Top("Struct", "", NoParam, FALSE,
        <<Named("a", UInt8),
          Unnamed(Const(LitV(BytesV(<<1>>)), BytesPacket(Lit(1)))),
          Named("b", Default(BytesPacket(Lit(1)), LitV(BytesV(<<2>>))))>>)

\* SizePrefixed(UInt8, GreedyBytes)                     (tunneling.py)
SizePrefixedFields ==
    <<postponed("size", Deduced(UInt8, LenEncodedOf("data")), 1),
      Named("data", GreedyBytesPacket)>>
SizePrefixed == Top("StructAdapter", "data", NoParam, FALSE, SizePrefixedFields)

\* CountPrefixed(UInt8, Bytes), and the Struct it wraps  (tunneling.py)
CountPrefixedFields ==
    <<Named("count", Deduced(UInt8, LenValueOf("data"))),
      Named("data", BytesPacket(ValueOf("count")))>>
CountPrefixed == Top("StructAdapter", "data", NoParam, FALSE, CountPrefixedFields)
CountPrefixedStruct == Top("Struct", "", NoParam, FALSE, CountPrefixedFields)

\* Padded(VarInt, 2)                                     (misc.py)
Padded ==
    Top("StructAdapter", "data", Lit(2), FALSE,
        <<Named("data", VarInt),
          Named("pad_size", Virtual(PadSize(2))),
          Named("padding", Padding(ValueOf("pad_size")))>>)

\* Sequence(Transformed(UInt8, enc_size=2, enc_func=lambda b: b + b))
TransformedSequence ==
    Top("Sequence", "", NoParam, FALSE,
        <<Unnamed(Transformed(UInt8, NoParam, Lit(2), "twice"))>>)

\* Sequence(Const(b"\x01", Bytes(lambda ctx: len(value))), UInt8), each field
\* postponed(...) to any level; the wrapped packet is the one Const defaults to.
Magic == BytesV(<<1>>)
ConstSequence ==
    Top("Sequence", "", NoParam, TRUE,
        <<Unnamed(Const(LitV(Magic), BytesPacket(LenOfLit(Magic)))),
          Unnamed(UInt8)>>)

\* Sequence(UInt8, Checksum(UInt8, _hash_sum8, joined_enc_partial())), each
\* field postponed(...) to any level
ChecksumSequence ==
    Top("Sequence", "", NoParam, TRUE,
        <<Unnamed(UInt8), Unnamed(Checksum(UInt8, HashSum8Partial))>>)

\* Struct(Check(lambda ctx: ctx.parent.x.value == 1), "x" / UInt8), each
\* field postponed(...) to any level
CheckStruct ==
    Top("Struct", "", NoParam, TRUE,
        <<Unnamed(Check(ValueIs("x", IntV(1)))), Named("x", UInt8)>>)

\* q = UInt8.renamed("a"); r = q.renamed("b"); Struct(q)
RenamedTwiceStruct ==
    LET q == IPacket_renamed(<<UInt8>>, 1, "a")
        r == IPacket_renamed(q.H, q.ref, "b")
    IN Top("Struct", "", NoParam, FALSE, <<FieldAt(r.H, q.ref)>>)

\* p = Check(lambda ctx: ctx.parent.x.value == 1); s = p.postponed();
\* Struct("x" / UInt8, p, "y" / UInt8)
SharedCheckStruct ==
    LET x == IPacket_renamed(<<UInt8, Check(ValueIs("x", IntV(1))), UInt8>>, 1, "x")
        s == IPacket_postponed(x.H, 2, 1)
        y == IPacket_renamed(s.H, 3, "y")
    IN Top("Struct", "", NoParam, FALSE,
           <<FieldAt(y.H, x.ref), FieldAt(y.H, 2), FieldAt(y.H, y.ref)>>)

\* cases = {1: UInt8, 2: BytesPacket(1)}
Cases == [tag \in {1, 2} |-> IF tag = 1 THEN UInt8 ELSE BytesPacket(Lit(1))]

\* Discriminated(UInt8, cases)
Discriminated ==
    Top("Discriminated", "value", NoParam, FALSE,
        <<Named("type", UInt8), Named("value", Dynamic(Cases, ValueOf("type")))>>)

\* A tag that is not a key of cases
UnknownTag == IntV(3)

\* Sequence(Dynamic(lambda ctx: cases[3]))
DynamicSequence ==
    Top("Sequence", "", NoParam, FALSE, <<Unnamed(Dynamic(Cases, LitV(UnknownTag)))>>)

\* Sequence(ZigZag, UInt8)
ZigZagSequence == Top("Sequence", "", NoParam, FALSE, <<Unnamed(ZigZag), Unnamed(UInt8)>>)

\* Sequence("a" / UInt8, "a" / UInt8): two fields sharing a name
SameNameSequence ==
    Top("Sequence", "", NoParam, FALSE, <<Named("a", UInt8), Named("a", UInt8)>>)

\* Sequence("" / UInt8, "_" / UInt8): the names Context.get_member resolves
\* to the context itself and to its parent
SpecialNameSequence ==
    Top("Sequence", "", NoParam, FALSE, <<Named("", UInt8), Named("_", UInt8)>>)

Packets == <<FreeSequence, VarIntSequence, PlainStruct, SizePrefixed, CountPrefixed,
             CountPrefixedStruct, Padded, TransformedSequence, ConstSequence,
             ChecksumSequence, CheckStruct, RenamedTwiceStruct, SharedCheckStruct,
             Discriminated, DynamicSequence, ZigZagSequence, SameNameSequence,
             SpecialNameSequence>>

\* The fields of top-level packet k with the postpone levels lv applied.
FieldsOf(k, lv) ==
    LET P == Packets[k] IN
    [i \in 1..Len(P.fields) |->
        IF P.free /\ lv[i] > 0
        THEN postponed(P.fields[i].name, P.fields[i].wrapped, lv[i])
        ELSE P.fields[i]]

LevelChoices(k) ==
    LET P == Packets[k] IN
    IF P.free THEN [1..Len(P.fields) -> 0..MaxLevel]
    ELSE {[i \in 1..Len(P.fields) |-> P.fields[i].postpone_level]}

\* ------------------------------------------------------------- user inputs
ByteChoices == {1, 2}
ByteStrings == UNION {[1..n -> ByteChoices] : n \in 0..MaxLen}
\* bytes on the wire handed to decode_bytes; 129 has the bit 0x80 set
WireChoices == {1, 2, 129}
WireStrings == UNION {[1..n -> WireChoices] : n \in 0..MaxData}

RECURSIVE Choices(_)
Choices(pkt) ==
    CASE pkt.kind = "UInt8" -> {IntV(1), IntV(2)}
      [] pkt.kind = "VarInt" -> {IntV(-1), IntV(0), IntV(300), IntV(70000)}
      [] pkt.kind = "ZigZag" -> {IntV(n) : n \in {-300, -65, -64, -1, 0, 1, 63, 64, 300}}
      [] pkt.kind \in {"Bytes", "GreedyBytes"} -> {BytesV(b) : b \in ByteStrings}
      [] pkt.kind = "Auto" -> {None} \cup Choices(pkt.wrapped)
      [] pkt.kind = "Checksum" -> Choices(pkt.wrapped)
      [] pkt.kind = "Dynamic" ->
            UNION {Choices(pkt.cases[tag]) : tag \in DOMAIN pkt.cases}
      [] pkt.kind = "Transformed" -> Choices(pkt.wrapped)
      [] OTHER -> {None}

AllChoices(fields) == {None} \cup UNION {Choices(fields[i].wrapped) : i \in 1..Len(fields)}

\* The item of a positional list that is one longer than the field count
ExtraItem == IntV(1)

\* The mapping m without the names it gives None: those names are missing.
WithoutNones(m) == [name \in {n \in DOMAIN m : m[n] # None} |-> m[name]]

\* What the user may hand to encode for top-level packet P.
UserValues(P) ==
    LET fields == P.fields IN
    CASE P.form = "Sequence" ->
            LET full == {u \in [1..Len(fields) -> AllChoices(fields)] :
                            \A i \in 1..Len(fields) : u[i] \in Choices(fields[i].wrapped)}
            IN full \cup {Append(u, ExtraItem) : u \in full}
      [] P.form = "Struct" ->
            LET full == {m \in [Names(fields) -> AllChoices(fields)] :
                            \A i \in 1..Len(fields) :
                                fields[i].name # NoName =>
                                    m[fields[i].name] \in
                                        {None} \cup Choices(fields[i].wrapped)}
            IN full \cup {WithoutNones(m) : m \in full}
      [] P.form = "Discriminated" ->
            {<<tag, value>> : tag \in Choices(fields[1].wrapped) \cup {UnknownTag},
                              value \in Choices(fields[2].wrapped)}
      [] P.form = "StructAdapter" ->
            UNION {Choices(fields[i].wrapped) : i \in {j \in 1..Len(fields) : fields[j].name = P.master}}

\* ------------------------------------------------------------------- state
VARIABLES
    pk,          \* the top-level packet: an index of Packets
    levels,      \* the postpone level of each of its fields
    job,         \* "test", "sized" or "decode_bytes"
    uval,        \* the value the user hands to encode
    completely,  \* decode_bytes' flag
    pc,          \* where the call is
    call,        \* the IPacket method that is running: encode, decode, decode_bytes
    stream,      \* the bytes held by the BytesStream
    pos,         \* the BytesStream's position
    tree,        \* the context tree of the running encode or decode
    cid,         \* the child context of each field
    obj,         \* the positional list Sequence._encode works on
    todo,        \* the fields still to be invoked, in invocation order
    invoked,     \* the fields invoked so far, in invocation order
    io,          \* per field, the bytes it wrote to / took from its stream
    result,      \* the positional list Sequence._decode builds
    dec,         \* the value decode returned
    err,         \* the exception that ended the call, if any
    size,        \* what sizeof(ctx) returned: [err, n]
    running,     \* which of two calls on the packet holds the event loop; 0: one call
    parked,      \* the objects of the call suspended at a send or recv
    solo,        \* what each of the two calls left behind when it ran alone
    mixed        \* the two calls were switched while both were under way

vars == <<pk, levels, job, uval, completely, pc, call, stream, pos, tree, cid, obj,
          todo, invoked, io, result, dec, err, size, running, parked, solo, mixed>>

\* What the event loop holds besides the call that runs.
loop == <<running, parked, solo, mixed>>

P == Packets[pk]
Fields == FieldsOf(pk, levels)
NoIo == [i \in 1..Len(Fields) |-> None]
NoSize == [err |-> "not called", n |-> 0]

\* A variant of at_eof that is one byte off.
at_eof_early(data, position) == position >= Len(data) - 1

\* SyncStream.at_eof on a BytesStream: cur_pos == end_pos
at_eof(data, position) == position = Len(data)

Rest == SubSeq(stream, pos + 1, Len(stream))

Init ==
    /\ pk \in 1..Len(Packets)
    /\ levels \in LevelChoices(pk)
    /\ job \in {"test", "sized", "decode_bytes"}
    /\ IF job = "decode_bytes"
       THEN /\ uval = None
            /\ stream \in WireStrings
            /\ completely \in BOOLEAN
            /\ pc = "decode"
       ELSE /\ uval \in UserValues(Packets[pk])
            /\ stream = <<>>
            /\ completely = FALSE
            /\ pc = IF job = "sized" THEN "sizeof" ELSE "encode"
    /\ call = ""
    /\ pos = 0
    /\ tree = NewTree
    /\ cid = <<>>
    /\ obj = <<>>
    /\ todo = <<>>
    /\ invoked = <<>>
    /\ io = <<>>
    /\ result = <<>>
    /\ dec = None
    /\ err = NoError
    /\ size = NoSize
    /\ running = 0
    /\ parked = None
    /\ solo = <<>>
    /\ mixed = FALSE

Raise(e) == pc' = "failed" /\ err' = e

\* IPacket.sizeof(ctx) of the top-level packet: Padded answers by itself, the
\* other wrappers forward to Sequence._sizeof, which makes the children in ctx.
Top_sizeof(T, fields, S) ==
    IF T.size # NoParam
    THEN [err |-> NoError, n |-> T.size.n, S |-> S]
    ELSE Sequence_sizeof(fields, S)

Sizeof ==
    /\ pc = "sizeof"
    /\ \E r \in {Top_sizeof(P, Fields, tree)} :
       /\ size' = [err |-> r.err, n |-> r.n]
       /\ tree' = r.S
    /\ pc' = "encode"
    /\ UNCHANGED loop
    /\ UNCHANGED <<pk, levels, job, uval, completely, call, stream, pos, cid, obj, todo,
                   invoked, io, result, dec, err>>

\* The positional list the top-level wrappers hand to Sequence._encode.
Top_modify_enc(T, fields, value) ==
    CASE T.form = "Sequence" -> value
      [] T.form = "Struct" -> Struct_modify_enc(fields, value)
      [] T.form = "StructAdapter" ->
            Struct_modify_enc(fields, StructAdapter_modify_enc(fields, T.master, value))
      [] T.form = "Discriminated" ->
            Struct_modify_enc(fields, Discriminated_modify_enc(value))

\* The value of the root context: the user's object, which no parameter reads.
TopValue == [t |-> "object", p |-> <<>>]

\* IPacket.encode up to the first field: the value is registered, the wrappers
\* modify it, Sequence._encode rejects a list with extra items, then installs
\* on_finish and enc_partial and makes every child context.
EncodeStart ==
    /\ pc = "encode"
    /\ \E list \in {Top_modify_enc(P, Fields, uval)} :
       \E S0 \in {[register_val(tree, Root, TopValue) EXCEPT
                      !.has_md = TRUE, !.on_finish = <<>>,
                      !.enc_partial = EmptyPartial(Fields)]} :
       \E ch \in {Sequence_children_contexts_list(Fields, list, S0)} :
       /\ obj' = list
       /\ IF Len(list) > Len(Fields)
          THEN /\ Raise("PacketEncodeError")
               /\ tree' = register_val(tree, Root, TopValue)
               /\ cid' = <<>>
               /\ todo' = <<>>
          ELSE /\ tree' = ch.S
               /\ cid' = ch.cids
               /\ IF ch.err # NoError THEN Raise(ch.err) /\ todo' = <<>>
                  ELSE /\ pc' = "enc_field"
                       /\ todo' = EncodeOrder(Fields)
                       /\ err' = err
    /\ invoked' = <<>>
    /\ io' = NoIo
    /\ call' = "encode"
    /\ UNCHANGED loop
    /\ UNCHANGED <<pk, levels, job, uval, completely, stream, pos, result, dec, size>>

\* encoded.append(child_ctx.encoded) of _encode_optimized and _decode
enc_partial_append(S, data) == [S EXCEPT !.enc_partial = Append(@, data)]

\* The store of _build_with_priorities in invocation order instead of at the
\* field's index.
enc_partial_set_next(S, i, data) ==
    [S EXCEPT !.enc_partial[Len(invoked) + 1] = data]

\* encoded[i] = data of _build_with_priorities
enc_partial_set(S, i, data) == [S EXCEPT !.enc_partial[i] = data]

\* One field's encode: onto the live stream when no field is postponed,
\* into a substream kept in enc_partial[i] otherwise.
EncodeField ==
    /\ pc = "enc_field"
    /\ todo # <<>>
    /\ \E i \in {Head(todo)} :
       \E r \in {IPacket_encode(Fields[i].wrapped, obj[i], cid[i], tree)} :
       /\ invoked' = Append(invoked, i)
       /\ IF r.err # NoError
          THEN /\ Raise(r.err)
               /\ tree' = r.S
               /\ UNCHANGED <<stream, io, todo>>
          ELSE /\ io' = [io EXCEPT ![i] = BytesV(r.out)]
               /\ todo' = Tail(todo)
               /\ UNCHANGED <<pc, err>>
               /\ IF Optimized(Fields)
                  THEN /\ stream' = stream \o r.out
                       /\ tree' = enc_partial_append(r.S, r.S.ctxs[cid[i]].encoded)
                  ELSE /\ stream' = stream
                       /\ tree' = enc_partial_set(r.S, i, BytesV(r.out))
    /\ UNCHANGED loop
    /\ UNCHANGED <<pk, levels, job, uval, completely, call, pos, cid, obj, result, dec, size>>

\* After the last field: the two-pass path sends the joined enc_partial, the
\* whole encoding is registered, on_finish fires and the metadata is deleted.
EncodeFinish ==
    /\ pc = "enc_field"
    /\ todo = <<>>
    /\ IF ~AllBytes(tree.enc_partial)
       THEN Raise("TypeError") /\ UNCHANGED <<stream, tree>>
       ELSE \E data \in {Join(tree.enc_partial)} :
            \E S1 \in {register_enc(tree, Root, data)} :
            \E e \in {Event_fire(S1.on_finish, S1)} :
            /\ stream' = IF Optimized(Fields) THEN stream ELSE stream \o data
            /\ IF e # NoError THEN Raise(e) /\ tree' = S1
               ELSE /\ tree' = del_md(S1)
                    /\ pc' = IF job = "test" THEN "reset" ELSE "done"
                    /\ err' = err
    /\ UNCHANGED loop
    /\ UNCHANGED <<pk, levels, job, uval, completely, call, pos, cid, obj, todo, invoked,
                   io, result, dec, size>>

\* test(): stream.reset(), then decode with a fresh context
Reset ==
    /\ pc = "reset"
    /\ pos' = 0
    /\ pc' = "decode"
    /\ UNCHANGED loop
    /\ UNCHANGED <<pk, levels, job, uval, completely, call, stream, tree, cid, obj, todo,
                   invoked, io, result, dec, err, size>>

\* IPacket.decode up to the first field, on a fresh context.
DecodeStart ==
    /\ pc = "decode"
    /\ \E S0 \in {[NewTree EXCEPT !.has_md = TRUE, !.on_finish = <<>>,
                                   !.enc_partial = EmptyPartial(Fields)]} :
       \E ch \in {Sequence_children_contexts_list(Fields, <<>>, S0)} :
       /\ tree' = ch.S
       /\ cid' = ch.cids
       /\ IF ch.err # NoError THEN Raise(ch.err) /\ todo' = <<>>
          ELSE pc' = "dec_field" /\ todo' = DecodeOrder(Fields) /\ err' = err
    /\ invoked' = <<>>
    /\ io' = NoIo
    /\ result' = <<>>
    /\ call' = "decode"
    /\ UNCHANGED loop
    /\ UNCHANGED <<pk, levels, job, uval, completely, stream, pos, obj, dec, size>>

\* One field's decode from the live stream.
DecodeField ==
    /\ pc = "dec_field"
    /\ todo # <<>>
    /\ \E i \in {Head(todo)} :
       \E r \in {IPacket_decode(Fields[i].wrapped, Rest, cid[i], tree)} :
       /\ invoked' = Append(invoked, i)
       /\ IF r.err # NoError
          THEN /\ Raise(r.err)
               /\ tree' = r.S
               /\ pos' = IF r.err = "StreamReadError" THEN Len(stream) ELSE pos + r.used
               /\ UNCHANGED <<io, todo, result>>
          ELSE /\ io' = [io EXCEPT ![i] = BytesV(SubSeq(Rest, 1, r.used))]
               /\ pos' = pos + r.used
               /\ todo' = Tail(todo)
               /\ result' = Append(result, r.v)
               /\ tree' = enc_partial_append(r.S, r.S.ctxs[cid[i]].encoded)
               /\ UNCHANGED <<pc, err>>
    /\ UNCHANGED loop
    /\ UNCHANGED <<pk, levels, job, uval, completely, call, stream, cid, obj, dec, size>>

\* What the top-level wrappers make of Sequence._decode's list.
Top_modify_dec(T, fields, list) ==
    CASE T.form = "Sequence" -> list
      [] T.form = "Struct" -> Struct_modify_dec(fields, list)
      [] T.form = "StructAdapter" ->
            StructAdapter_modify_dec(T.master, Struct_modify_dec(fields, list))
      [] T.form = "Discriminated" ->
            Discriminated_modify_dec(Struct_modify_dec(fields, list))

\* After the last field: the children's encoded are joined and registered,
\* on_finish fires, the metadata is deleted and the wrappers turn the list
\* into the value decode returns.
DecodeFinish ==
    /\ pc = "dec_field"
    /\ todo = <<>>
    /\ IF ~AllBytes(tree.enc_partial)
       THEN Raise("TypeError") /\ UNCHANGED <<tree, dec>>
       ELSE \E S1 \in {register_enc(tree, Root, Join(tree.enc_partial))} :
            \E e \in {Event_fire(S1.on_finish, S1)} :
            IF e # NoError THEN Raise(e) /\ tree' = S1 /\ dec' = dec
            ELSE /\ tree' = register_val(del_md(S1), Root, TopValue)
                 /\ dec' = Top_modify_dec(P, Fields, result)
                 /\ pc' = IF job = "decode_bytes" THEN "check" ELSE "done"
                 /\ err' = err
    /\ call' = IF pc' = "check" THEN "decode_bytes" ELSE call
    /\ UNCHANGED loop
    /\ UNCHANGED <<pk, levels, job, uval, completely, stream, pos, cid, obj, todo,
                   invoked, io, result, size>>

\* IPacket.decode_bytes after decode returned
DecodeBytesCheck ==
    /\ pc = "check"
    /\ IF completely /\ ~at_eof(stream, pos)
       THEN Raise("PacketDecodeError")
       ELSE pc' = "done" /\ err' = err
    /\ UNCHANGED loop
    /\ UNCHANGED <<pk, levels, job, uval, completely, call, stream, pos, tree, cid, obj,
                   todo, invoked, io, result, dec, size>>

Next ==
    \/ Sizeof
    \/ EncodeStart
    \/ EncodeField
    \/ EncodeFinish
    \/ Reset
    \/ DecodeStart
    \/ DecodeField
    \/ DecodeFinish
    \/ DecodeBytesCheck

Spec == Init /\ [][Next]_vars

\* ------------------------------------------------- two calls on one packet
\* What one call owns: its stream, its context tree, the arguments and the
\* locals of its coroutines.  The packet object (pk, levels) is not part of
\* it: the calls share it.
CallState_shared_partial ==
    [job |-> job, uval |-> uval, completely |-> completely, pc |-> pc,
     call |-> call, stream |-> stream, pos |-> pos,
     tree |-> IF "enc_partial" \in DOMAIN tree
              THEN [tree EXCEPT !.enc_partial = EmptyPartial(Fields)] ELSE tree,
     cid |-> cid, obj |-> obj, todo |-> todo, invoked |-> invoked, io |-> io,
     result |-> result, dec |-> dec, err |-> err, size |-> size]

CallState ==
    [job |-> job, uval |-> uval, completely |-> completely, pc |-> pc,
     call |-> call, stream |-> stream, pos |-> pos, tree |-> tree,
     cid |-> cid, obj |-> obj, todo |-> todo, invoked |-> invoked, io |-> io,
     result |-> result, dec |-> dec, err |-> err, size |-> size]

\* The call whose objects are f is the one that runs.
Holds(f) ==
    /\ job = f.job /\ uval = f.uval /\ completely = f.completely /\ pc = f.pc
    /\ call = f.call /\ stream = f.stream /\ pos = f.pos /\ tree = f.tree
    /\ cid = f.cid /\ obj = f.obj /\ todo = f.todo /\ invoked = f.invoked
    /\ io = f.io /\ result = f.result /\ dec = f.dec /\ err = f.err
    /\ size = f.size

\* The event loop resumes the call whose objects are f.
Resume(f) ==
    /\ job' = f.job /\ uval' = f.uval /\ completely' = f.completely /\ pc' = f.pc
    /\ call' = f.call /\ stream' = f.stream /\ pos' = f.pos /\ tree' = f.tree
    /\ cid' = f.cid /\ obj' = f.obj /\ todo' = f.todo /\ invoked' = f.invoked
    /\ io' = f.io /\ result' = f.result /\ dec' = f.dec /\ err' = f.err
    /\ size' = f.size

\* A call that has not started: test(value) on a new BytesStream, or
\* decode_bytes(data) on a BytesStream of data, each with a context of its own.
StartOf(j, value, data, flag) ==
    [job |-> j, uval |-> value, completely |-> flag,
     pc |-> IF j = "decode_bytes" THEN "decode" ELSE "encode",
     call |-> "", stream |-> data, pos |-> 0, tree |-> NewTree,
     cid |-> <<>>, obj |-> <<>>, todo |-> <<>>, invoked |-> <<>>, io |-> <<>>,
     result |-> <<>>, dec |-> None, err |-> NoError, size |-> NoSize]

\* The same call once more, from the start.
Restart(f) ==
    StartOf(f.job, f.uval, IF f.job = "decode_bytes" THEN f.stream ELSE <<>>,
            f.completely)

Finished(f) == f.pc \in {"done", "failed"}

\* The packets two calls are made on: a two-pass Sequence, a single-pass one
\* and a padded one.
PairPackets == {k \in 1..Len(Packets) : Packets[k] \in {SizePrefixed, CountPrefixed, Padded}}

FirstCalls(k) ==
    {StartOf("test", u, <<>>, FALSE) : u \in UserValues(Packets[k])}
        \cup {StartOf("decode_bytes", None, w, TRUE) : w \in WireStrings}

SecondCalls(k) == {StartOf("test", u, <<>>, FALSE) : u \in UserValues(Packets[k])}

InitPair ==
    /\ pk \in PairPackets
    /\ levels \in LevelChoices(pk)
    /\ \E f \in FirstCalls(pk) : Holds(f)
    /\ running = 1
    /\ parked \in SecondCalls(pk)
    /\ solo = <<>>
    /\ mixed = FALSE

\* A call run alone has ended: what it left is kept; then the second call
\* runs alone, and then both start again, this time sharing the event loop.
RunNext ==
    /\ Len(solo) < 2
    /\ Finished(CallState)
    /\ solo' = Append(solo, CallState)
    /\ IF Len(solo) = 0
       THEN /\ Resume(parked)
            /\ parked' = Restart(CallState)
            /\ running' = 2
       ELSE /\ Resume(parked)
            /\ parked' = Restart(CallState)
            /\ running' = 1
    /\ mixed' = FALSE
    /\ UNCHANGED <<pk, levels>>

\* At an await of send or recv the event loop parks the running call and
\* resumes the other one; a call that has ended gives way for good.
Switch ==
    /\ Len(solo) = 2
    /\ ~Finished(parked)
    /\ Resume(parked)
    /\ parked' = CallState
    /\ running' = 3 - running
    /\ mixed' = (mixed \/ (call # "" /\ parked.call # "" /\ ~Finished(CallState)))
    /\ UNCHANGED <<pk, levels, solo>>

NextPair ==
    \/ EncodeStart
    \/ EncodeField
    \/ EncodeFinish
    \/ Reset
    \/ DecodeStart
    \/ DecodeField
    \/ DecodeFinish
    \/ DecodeBytesCheck
    \/ RunNext
    \/ Switch

SpecPair == InitPair /\ [][NextPair]_vars

\* ================================================================== claims
\* encode returned normally / decode returned normally
\* The entry of the user's mapping for name; None when the name is missing.
Given(name) == IF name \in DOMAIN uval THEN uval[name] ELSE None

EncodeReturned == call = "encode" /\ pc \in {"reset", "decode", "done"}
DecodeReturned ==
    \/ call = "decode" /\ pc = "done"
    \/ call = "decode_bytes"

\* C1 (as the spec states it): the round-trip law.  test() encodes the value
\* into a BytesStream, resets it and decodes with a fresh context; whenever the
\* encode succeeded, the decode succeeds too and returns a value equal to the
\* one encoded.
C1_RoundTrip ==
    (job = "test" /\ call = "decode" /\ pc \in {"done", "failed"})
        => (pc = "done" /\ dec = uval)

\* C2 (as the spec states it): size agreement.  When sizeof(ctx) returned a
\* number and an encode in that context succeeded, the encode wrote exactly
\* that many bytes.
C2_SizeAgreement ==
    (job = "sized" /\ size.err = NoError /\ EncodeReturned)
        => Len(stream) = size.n

\* C3: postponement visibility.  At the moment the encode of field i is
\* invoked, every field j of a strictly lower postpone level has already been
\* encoded and enc_partial[j] holds its encoded bytes.
C3_PostponementVisibility ==
    (call = "encode" /\ pc = "enc_field" /\ todo # <<>>) =>
        \A j \in 1..Len(Fields) :
            Fields[j].postpone_level < Fields[Head(todo)].postpone_level =>
                /\ \E k \in 1..Len(invoked) : invoked[k] = j
                /\ IsBytes(tree.ctxs[cid[j]].encoded)
                /\ tree.enc_partial[j] = tree.ctxs[cid[j]].encoded
                /\ tree.enc_partial[j] = io[j]

\* A postponed field is about to be encoded while a field declared after it,
\* of a lower level, already has its bytes in enc_partial.
C3_Witness ==
    /\ call = "encode" /\ pc = "enc_field" /\ todo # <<>>
    /\ \E j \in 1..Len(Fields) :
          /\ j > Head(todo)
          /\ Fields[j].postpone_level < Fields[Head(todo)].postpone_level
          /\ Len(tree.enc_partial[j].p) > 0

\* C4: decode order.  Whatever the postpone levels, decode invokes the fields
\* in declaration order, and the bytes the fields took, concatenated in that
\* order, are the bytes of the stream from its start to its position.
C4_DecodeOrder ==
    call \in {"decode", "decode_bytes"} =>
        /\ \A k \in 1..Len(invoked) : invoked[k] = k
        /\ pc # "failed" => Join(io) = SubSeq(stream, 1, pos)

\* Every field has been decoded, the first one postponed beyond the second.
C4_Witness ==
    /\ call = "decode"
    /\ Len(invoked) = Len(Fields)
    /\ Len(Fields) >= 2
    /\ Fields[1].postpone_level > Fields[2].postpone_level
    /\ pc # "failed"
    /\ pos >= 2

\* ctx.members[name].value and .encoded of the running call's context
MemberValue(name) == tree.ctxs[get_member(tree, Root, name)].value
NamedFields == {i \in 1..Len(Fields) : Fields[i].name # NoName}

C6_EncodedSlice ==
    \A i \in 1..Len(io) : io[i] # None => tree.ctxs[cid[i]].encoded = io[i]

\* C7 (as the spec states it): SizePrefixed decode is bounded.  Once the
\* prefix s and the body have been decoded, the position of the outer stream
\* is the prefix's length plus s, whatever follows the body in the stream.
C7_SizePrefixedBounded ==
    (P = SizePrefixed /\ call \in {"decode", "decode_bytes"}
        /\ Len(invoked) = 2 /\ pc # "failed"
        /\ Len(stream) >= Len(io[1].p) + IntOf(result[1]))
        => pos = Len(io[1].p) + IntOf(result[1])

\* The count and the data the user gave to a CountPrefixed encode.
CountGiven == IF P.form = "Struct" THEN Given("count") ELSE None
DataGiven == IF P.form = "Struct" THEN Given("data") ELSE uval

\* C8: the CountPrefixed length invariant.  A successful encode writes the
\* one-byte count len(value) followed by the value; an input whose count
\* disagrees with the length of its data is rejected (with PacketEncodeError
\* when the encode runs in a fresh context, as in test()); a successful decode returns a body as long as the count it decoded.
C8_CountPrefixedLength ==
    P \in {CountPrefixed, CountPrefixedStruct} =>
        /\ EncodeReturned =>
              /\ IsBytes(DataGiven)
              /\ stream = <<Len(DataGiven.p)>> \o DataGiven.p
        /\ (call = "encode" /\ IsBytes(DataGiven) /\ IsInt(CountGiven)
                /\ IntOf(CountGiven) # Len(DataGiven.p)) =>
              /\ pc \in {"enc_field", "failed"}
              /\ (pc = "failed" /\ job = "test") => err = "PacketEncodeError"
        /\ DecodeReturned =>
              /\ Len(result[2].p) = IntOf(result[1])
              /\ result[2] = IF P.form = "Struct" THEN dec["data"] ELSE dec

\* A count that disagrees with the data has been rejected.
C8_Witness ==
    /\ P = CountPrefixedStruct /\ job = "test"
    /\ call = "encode" /\ pc = "failed" /\ err = "PacketEncodeError"
    /\ IsInt(CountGiven) /\ IsBytes(DataGiven)
    /\ IntOf(CountGiven) # Len(DataGiven.p)

\* C9: declared position on the wire.  Whatever the postpone levels, the
\* bytes a successful encode wrote are the fields' encodings concatenated in
\* declaration order.
C9_DeclaredPosition == EncodeReturned => stream = Join(io)

\* An encode has returned whose first field was postponed beyond the second
\* and wrote other bytes than it.
C9_Witness ==
    /\ EncodeReturned
    /\ Len(Fields) >= 2
    /\ Fields[1].postpone_level > Fields[2].postpone_level
    /\ io[1] # io[2]
    /\ Len(stream) = Len(Fields)

\* C10: decode_bytes(data, completely).  After a successful decode the call
\* fails with PacketDecodeError when bytes remain unread and completely is
\* set, and returns the decoded value otherwise.
C10_DecodeBytesCompletely ==
    (call = "decode_bytes" /\ pc # "check") =>
        IF completely /\ pos < Len(stream)
        THEN pc = "failed" /\ err = "PacketDecodeError"
        ELSE pc = "done" /\ err = NoError

\* decode_bytes has failed on unread bytes after a successful decode.
C10_Witness ==
    /\ call = "decode_bytes" /\ pc = "failed"
    /\ completely /\ pos < Len(stream) /\ pos > 0

\* C11: Const.  Given None or exactly the deduced value, the field encodes the
\* deduced value; given anything else it fails with a PacketEncodeError and
\* nothing is written; a decode that reads another value than the deduced one
\* never returns and fails with PacketDecodeError (at once, or when postponed
\* at the end of the Sequence unless a later field fails to read first).
C11_Const ==
    P = ConstSequence =>
        /\ (call = "encode" /\ \E k \in 1..Len(invoked) : invoked[k] = 1) =>
              IF uval[1] \in {None, Magic}
              THEN io[1] = Magic
              ELSE /\ pc = "failed" /\ IsPacketEncodeError(err)
                   /\ io[1] = None /\ stream = <<>>
        /\ (call \in {"decode", "decode_bytes"} /\ Len(invoked) >= 1
                /\ Len(stream) >= 1 /\ stream[1] # 1) =>
              /\ ~DecodeReturned
              /\ Fields[1].postpone_level = 0 => pc = "failed"
              /\ pc = "failed" =>
                    \/ err = "PacketDecodeError"
                    \/ Fields[1].postpone_level > 0 /\ err = "StreamReadError"

\* A postponed Const has read another byte than its value and the decode of
\* the Sequence has failed at its end.
C11_Witness ==
    /\ P = ConstSequence /\ call = "decode"
    /\ Fields[1].postpone_level > 0
    /\ Len(invoked) = 2 /\ stream[1] # 1
    /\ pc = "failed" /\ err = "PacketDecodeError"

\* The bytes of the fields invoked before the k-th invocation, as
\* joined_enc_partial shows them to the field invoked k-th.
PartialBefore(k) == Join([m \in 1..(k - 1) |-> io[invoked[m]]])

\* C12: Deduced.  On encode a value the user gives that differs from the
\* deduced one is rejected with a PacketEncodeError, otherwise the deduced
\* value is encoded; on decode the value read is returned as it is, never
\* compared with the deduced one, so no decode fails with PacketDecodeError.
C12_Deduced ==
    P = FreeSequence =>
        /\ call = "encode" =>
              \A k \in 1..Len(invoked) :
                 invoked[k] \in {1, 3} =>
                    LET i == invoked[k]
                        d == IntV(SumBytes(PartialBefore(k)) % 256)
                    IN IF uval[i] \in {None, d}
                       THEN io[i] = BytesV(d.p)
                       ELSE /\ pc = "failed" /\ IsPacketEncodeError(err)
                            /\ io[i] = None
        /\ call = "decode" =>
              /\ \A i \in 1..Len(result) : result[i] = IntV(io[i].p[1])
              /\ pc = "failed" => err = "StreamReadError"
        /\ (call = "decode" /\ Len(stream) >= 3) => pc # "failed"

\* A decode has returned although the first field, a Deduced byte sum of the
\* empty prefix, read 1 and not 0.
C12_Witness ==
    /\ P = FreeSequence /\ DecodeReturned
    /\ result[1] = IntV(1)
    /\ Fields[1].postpone_level = 0

\* C13: Default.  A value the user gives is encoded unchanged and never
\* rejected by the field (only by the packet it wraps, here Bytes(1) for a
\* string of another length); None makes the default be encoded; either way
\* the context value is the value encoded; decode returns whatever it reads.
C13_Default ==
    P = PlainStruct =>
        /\ (call = "encode" /\ \E k \in 1..Len(invoked) : invoked[k] = 3) =>
              LET v == IF Given("b") = None THEN BytesV(<<2>>) ELSE Given("b") IN
              IF Len(v.p) = 1
              THEN /\ pc # "failed"
                   /\ io[3] = v
                   /\ MemberValue("b") = v
              ELSE pc = "failed" /\ err = "PacketEncodeError"
        /\ (call \in {"decode", "decode_bytes"} /\ Len(invoked) = 3
                /\ Len(stream) >= 3) =>
              /\ Len(result) = 3
              /\ result[3] = BytesV(<<stream[3]>>)
              /\ call = "decode" => pc # "failed"

\* An encode has returned that was given another value than the default.
C13_Witness ==
    /\ P = PlainStruct /\ EncodeReturned
    /\ Given("b") = BytesV(<<1>>)
    /\ io[3] = BytesV(<<1>>)

\* C14: Checksum verification on decode.  A decode that has returned gave a
\* checksum field whose value passes validate_fn against the hash of the
\* data: of the fields decoded before it when the check is made at the
\* field, of every field when the check is postponed to the Sequence's end.
C14_ChecksumVerified ==
    (P = ChecksumSequence /\ DecodeReturned) =>
        LET data == IF Fields[2].postpone_level > 0 THEN Join(io)
                    ELSE PartialBefore(2)
        IN result[2] = IntV(SumBytes(data) % 256)

Encoded(i) == IsBytes(io[i])

\* C15: deferred validation timing.  A postponed Check (and a postponed
\* Const on decode) is queued once on on_finish when its field is reached and
\* is not evaluated there; its failure is raised only after every field has
\* completed, and then always: the operation does not return.
C15_DeferredValidation ==
    /\ (P = CheckStruct /\ Fields[1].postpone_level > 0) =>
          /\ (pc \in {"enc_field", "dec_field"}
                  /\ \E k \in 1..Len(invoked) : invoked[k] = 1) =>
                Len(tree.on_finish) = 1
          /\ (pc = "failed" /\ invoked # <<>> /\ call \in {"encode", "decode"}) =>
                err \in {"PacketInvalidError", "StreamReadError", "PacketObjTypeError"}
          /\ (pc = "failed" /\ err = "PacketInvalidError") =>
                /\ \A i \in 1..Len(Fields) : Encoded(i)
                /\ call = "decode" => Len(result) = Len(Fields)
                /\ MemberValue("x") # IntV(1)
          /\ EncodeReturned => Given("x") = IntV(1)
          /\ DecodeReturned => result[2] = IntV(1)
          /\ (call = "decode" /\ Len(result) = 2 /\ result[2] # IntV(1)) =>
                pc \in {"dec_field", "failed"}
    /\ (P = ConstSequence /\ Fields[1].postpone_level > 0
            /\ call \in {"decode", "decode_bytes"}) =>
          /\ (pc = "dec_field" /\ invoked # <<>>) => Len(tree.on_finish) = 1
          /\ (pc = "failed" /\ err = "PacketDecodeError") =>
                Len(result) = Len(Fields)
          /\ DecodeReturned => result[1] = Magic

\* A decode failed on the postponed check after both fields were decoded.
C15_Witness ==
    /\ P = CheckStruct /\ Fields[1].postpone_level > 0
    /\ call = "decode" /\ pc = "failed" /\ err = "PacketInvalidError"
    /\ Len(result) = 2 /\ result[2] = IntV(2)

\* C16: sizeof either returns a byte count or fails with NotSizeableError.
\* Sequence(VarInt, UInt8) holds a VarInt, whose size depends on the value:
\* sizeof on a context that has not been encoded gives a count or
\* NotSizeableError, and no other error.
C16_SizeofNotSizeable ==
    (P = VarIntSequence /\ size # NoSize) =>
        size.err \in {NoError, "NotSizeableError"}

\* C17: packets are immutable after construction.  q, made with
\* renamed("a"), is still named "a" after r = q.renamed("b"), so that
\* Struct(q) decodes to a mapping with the key "a"; and a Check p
\* used unpostponed, after s = p.postponed() was made from it, validates at
\* its field: a failure is raised before the field declared after it is
\* reached, and nothing is queued on on_finish.
C17_Immutable ==
    /\ (P = RenamedTwiceStruct /\ DecodeReturned) => DOMAIN dec = {"a"}
    /\ P = SharedCheckStruct =>
          /\ tree.on_finish = <<>>
          /\ (pc = "failed" /\ err = "PacketInvalidError") => io[3] = None

Reached(i) == \E k \in 1..Len(invoked) : invoked[k] = i

\* What cases[tag] encodes a valid value to, and decodes a byte to
CaseEncoding(tag, value) == IF tag = 1 THEN <<IntOf(value)>> ELSE value.p
CaseValue(tag, byte) == IF tag = 1 THEN IntV(byte) ELSE BytesV(<<byte>>)

\* C18: Dynamic/Discriminated lookup failure.  A tag that is not a key of
\* cases makes encode fail with PacketEncodeError and decode fail with
\* PacketDecodeError once the value field is reached, and sizeof of a Dynamic
\* whose lookup fails gives NotSizeableError; for a tag of cases, encode
\* writes the tag's byte followed by cases[tag]'s encoding of the value and
\* decode returns the pair (tag, value).
C18_Discriminated ==
    /\ (P = Discriminated /\ call = "encode" /\ job = "test") =>
          /\ (uval[1] = UnknownTag /\ Reached(2)) =>
                /\ pc = "failed" /\ err = "PacketEncodeError"
                /\ io[2] = None /\ stream = <<3>>
          /\ EncodeReturned =>
                /\ IntOf(uval[1]) \in DOMAIN Cases
                /\ stream = <<IntOf(uval[1])>> \o CaseEncoding(IntOf(uval[1]), uval[2])
    /\ (P = Discriminated /\ call \in {"decode", "decode_bytes"}) =>
          /\ (Reached(2) /\ stream[1] \notin DOMAIN Cases) =>
                /\ pc = "failed" /\ err = "PacketDecodeError"
                /\ Len(result) = 1
          /\ DecodeReturned =>
                /\ stream[1] \in DOMAIN Cases
                /\ dec = <<IntV(stream[1]), CaseValue(stream[1], stream[2])>>
    /\ P = DynamicSequence =>
          /\ size # NoSize => size.err = "NotSizeableError"
          /\ (call = "encode" /\ Reached(1)) =>
                pc = "failed" /\ err = "PacketEncodeError"
          /\ (call \in {"decode", "decode_bytes"} /\ Reached(1)) =>
                pc = "failed" /\ err = "PacketDecodeError"

\* An encode of a value tagged with no key of cases has failed.
C18_Witness ==
    /\ P = Discriminated /\ call = "encode" /\ job = "test"
    /\ uval = <<UnknownTag, IntV(1)>>
    /\ Reached(2) /\ pc = "failed" /\ err = "PacketEncodeError"

BodyLength == Len(VarIntBytes(IntOf(uval)))
PaddedSize == P.size.n

\* C19: Padded(body, size), here Padded(VarInt, 2).  A body that encodes to
\* L <= size bytes is written followed by size - L zero bytes, and decoding
\* those bytes consumes exactly size bytes and returns the body's value; a
\* body longer than size makes encode fail with PacketEncodeError.
C19_Padded ==
    (P = Padded /\ job = "test") =>
        /\ (call = "encode" /\ BodyLength <= PaddedSize) =>
              /\ pc # "failed"
              /\ EncodeReturned =>
                    stream = VarIntBytes(IntOf(uval)) \o Zeros(PaddedSize - BodyLength)
        /\ (call = "encode" /\ BodyLength > PaddedSize) =>
              /\ ~EncodeReturned
              /\ pc = "failed" => err = "PacketEncodeError"
        /\ call = "decode" =>
              /\ pc # "failed"
              /\ pc = "done" => dec = uval /\ pos = PaddedSize

RECURSIVE Pow128(_)
Pow128(k) == IF k = 0 THEN 1 ELSE 128 * Pow128(k - 1)

\* b holds the 7-bit groups of n, least significant first and none beyond
\* the highest one set; every byte but the last has bit 0x80, the last not.
IsVarIntOf(b, n) ==
    /\ Len(b) >= 1
    /\ \A k \in 1..Len(b) :
          /\ b[k] % 128 = (n \div Pow128(k - 1)) % 128
          /\ (b[k] >= 128) = (k < Len(b))
    /\ n < Pow128(Len(b))
    /\ Len(b) > 1 => b[Len(b)] # 0

\* C20: VarInt wire format, on the VarInt that is the first field of
\* Sequence(VarInt, UInt8).  n >= 0 is encoded as its 7-bit groups (0 as 00,
\* 300 as ac 02) and the decode of those bytes gives n; n < 0 makes encode
\* fail with PacketEncodeError with nothing written.
C20_VarIntFormat ==
    (P = VarIntSequence /\ job = "test" /\ IsInt(uval[1]) /\ Reached(1)) =>
        LET n == IntOf(uval[1]) IN
        /\ (call = "encode" /\ n >= 0) =>
              /\ IsBytes(io[1]) /\ IsVarIntOf(io[1].p, n)
              /\ n = 0 => io[1].p = <<0>>
              /\ n = 300 => io[1].p = <<172, 2>>
        /\ (call = "encode" /\ n < 0) =>
              /\ pc = "failed" /\ err = "PacketEncodeError"
              /\ stream = <<>> /\ io[1] = None
        /\ call = "decode" =>
              /\ n >= 0
              /\ Len(result) >= 1 /\ result[1] = IntV(n)
              /\ pos >= Len(io[1].p)

\* A VarInt of two bytes was encoded and decoded again.
C20_Witness ==
    /\ P = VarIntSequence /\ job = "test" /\ call = "decode"
    /\ uval[1] = IntV(300) /\ Reached(1)
    /\ io[1] = BytesV(<<172, 2>>)
    /\ result[1] = IntV(300)

\* The number ZigZag hands to VarInt for n: n << 1, complemented when negative
ZigZagOf(n) == IF n >= 0 THEN 2 * n ELSE -(2 * n) - 1

ZigZagInputs == {IntOf(v) : v \in Choices(ZigZag)}

\* C21: ZigZag mapping, on the ZigZag that is the first field of
\* Sequence(ZigZag, UInt8).  n is encoded as the VarInt of n << 1, or of its
\* complement when n < 0, which is never negative; distinct numbers get
\* distinct encodings, and decoding the bytes gives n back for negative,
\* zero and positive n.
C21_ZigZag ==
    (P = ZigZagSequence /\ job = "test" /\ Reached(1)) =>
        LET n == IntOf(uval[1]) IN
        /\ ZigZagOf(n) >= 0
        /\ IsBytes(io[1]) /\ IsVarIntOf(io[1].p, ZigZagOf(n))
        /\ \A m \in ZigZagInputs :
              VarIntBytes(ZigZag_modify_enc(m)) = io[1].p => m = n
        /\ call = "decode" => Len(result) >= 1 /\ result[1] = IntV(n)

\* A negative number was encoded to two bytes and decoded again.
C21_Witness ==
    /\ P = ZigZagSequence /\ job = "test" /\ call = "decode"
    /\ uval[1] = IntV(-65) /\ Reached(1)
    /\ io[1] = BytesV(<<129, 1>>)
    /\ result[1] = IntV(-65)

\* C22: Struct mapping <-> positional list.  On encode the field at index i
\* receives the mapping's entry for its name, None when the name is missing
\* or the field is unnamed; on decode the mapping returned has one entry per
\* named field, its decoded value, and none for unnamed fields; a positional
\* list longer than the field count is rejected by a Sequence with
\* PacketEncodeError before anything is encoded.
C22_StructMapping ==
    /\ (P.form = "Struct" /\ call = "encode") =>
          /\ Len(obj) = Len(Fields)
          /\ \A i \in 1..Len(Fields) :
                obj[i] = IF Fields[i].name \in DOMAIN uval
                         THEN uval[Fields[i].name] ELSE None
    /\ (P.form = "Struct" /\ DecodeReturned) =>
          /\ DOMAIN dec = {Fields[i].name : i \in NamedFields}
          /\ \A i \in NamedFields : dec[Fields[i].name] = result[i]
    /\ (P.form = "Sequence" /\ call = "encode" /\ Len(uval) > Len(Fields)) =>
          /\ pc = "failed" /\ err = "PacketEncodeError"
          /\ invoked = <<>> /\ stream = <<>>

\* An encode was given a mapping without the name of the last field and
\* returned: the unnamed field and the missing name both received None.
C22_Witness ==
    /\ P = PlainStruct /\ EncodeReturned
    /\ DOMAIN uval = {"a"}
    /\ obj = <<uval["a"], None, None>>

C24_UniqueChildContext ==
    (call \in {"encode", "decode", "decode_bytes"} /\ Len(cid) = Len(Fields)) =>
        \A i \in 1..Len(Fields) :
            /\ cid[i] # Root
            /\ cid[i] # tree.ctxs[Root].parent
            /\ tree.ctxs[cid[i]].parent = Root
            /\ \A j \in 1..Len(Fields) : j # i => cid[j] # cid[i]

\* The number of bytes the packet's decode asks of a stream holding rest: one
\* for UInt8, up to the first byte without the bit 0x80 for VarInt and ZigZag
\* (one more than there are when no such byte comes), the size for Bytes;
\* -1 for the packets that read what there is or nothing.
RECURSIVE Wanted(_, _, _)
Wanted(pkt, rest, c) ==
    CASE pkt.kind = "UInt8" -> 1
      [] pkt.kind \in {"VarInt", "ZigZag"} ->
            IF \E k \in 1..Len(rest) : rest[k] < 128
            THEN CHOOSE k \in 1..Len(rest) :
                    rest[k] < 128 /\ \A j \in 1..(k - 1) : rest[j] >= 128
            ELSE Len(rest) + 1
      [] pkt.kind = "Bytes" ->
            IF Param_sizeof(pkt.size, c, tree).err = NoError
            THEN Param_sizeof(pkt.size, c, tree).n ELSE -1
      [] pkt.kind \in {"Auto", "Checksum"} -> Wanted(pkt.wrapped, rest, c)
      [] OTHER -> -1

\* What was left on the stream when the k-th invoked field began to decode.
RestAt(k) == SubSeq(stream, Len(PartialBefore(k)) + 1, Len(stream))

WantedAt(k) == Wanted(Fields[invoked[k]].wrapped, RestAt(k), cid[invoked[k]])

\* C25: truncated input.  When the stream holds fewer bytes than the field
\* being decoded asks for (a Bytes(n) with less than n left, a VarInt whose
\* last byte has the continuation bit, a fixed-size integer with nothing
\* left), the decode ends there with StreamReadError and returns nothing; a
\* field that did return took exactly the bytes it asked for.
C25_Truncated ==
    (call \in {"decode", "decode_bytes"} /\ invoked # <<>>) =>
        /\ WantedAt(Len(invoked)) > Len(RestAt(Len(invoked))) =>
              /\ pc = "failed" /\ err = "StreamReadError"
              /\ Len(result) = Len(invoked) - 1
              /\ dec = None
        /\ \A k \in 1..Len(result) :
              WantedAt(k) >= 0 =>
                  /\ WantedAt(k) <= Len(RestAt(k))
                  /\ io[invoked[k]] = BytesV(SubSeq(RestAt(k), 1, WantedAt(k)))

\* A VarInt whose last available byte has the continuation bit was refused.
C25_Witness ==
    /\ P = VarIntSequence /\ job = "decode_bytes"
    /\ stream = <<129, 129>>
    /\ invoked = <<1>> /\ pc = "failed" /\ err = "StreamReadError"
    /\ result = <<>> /\ dec = None

\* The field whose encode is about to be invoked is postponed.
PostponedNext ==
    /\ call = "encode" /\ pc = "enc_field" /\ todo # <<>>
    /\ Fields[Head(todo)].postpone_level > 0

\* C26 (as the spec states it): at the moment the encode of a postponed field
\* i is invoked, every enc_partial slot of a field that is not of a strictly
\* lower postpone level than i, the slot of i included, holds empty bytes.
C26_OtherSlotsEmpty ==
    PostponedNext =>
        \A j \in 1..Len(Fields) :
            Fields[j].postpone_level >= Fields[Head(todo)].postpone_level =>
                tree.enc_partial[j] = BytesV(<<>>)

\* C26 (amended): at the moment the encode of a postponed field i is invoked,
\* the enc_partial slots that hold empty bytes are the slot of i, the slots of
\* the fields of a higher postpone level and the slots of the fields of the
\* same level declared after i; the slot of a field of the same level declared
\* before i holds the bytes that field encoded.
C26_OtherSlotsEmptyAmended ==
    PostponedNext =>
        /\ Len(tree.enc_partial) = Len(Fields)
        /\ \A j \in 1..Len(Fields) :
              LET i == Head(todo) IN
              /\ (\/ Fields[j].postpone_level > Fields[i].postpone_level
                  \/ Fields[j].postpone_level = Fields[i].postpone_level /\ j >= i)
                    => tree.enc_partial[j] = BytesV(<<>>)
              /\ (Fields[j].postpone_level = Fields[i].postpone_level /\ j < i)
                    => Reached(j) /\ tree.enc_partial[j] = io[j]

\* The second of two fields of level 1 is about to be encoded: the slot of
\* the first holds a byte, its own slot and the slot of a field of level 2
\* are empty.
C26_Witness ==
    /\ P = FreeSequence /\ levels = <<1, 1, 2>>
    /\ PostponedNext /\ Head(todo) = 2
    /\ Len(tree.enc_partial[1].p) = 1
    /\ tree.enc_partial[2] = BytesV(<<>>)
    /\ tree.enc_partial[3] = BytesV(<<>>)

\* C27 (as the spec states it): the shape of enc_partial.  While a Sequence
\* encodes (single-pass or two-pass) or decodes, the enc_partial list in the
\* metadata of its context has one slot per field, and once field i has
\* completed, slot i holds that field's encoded bytes, child.encoded.
C27_PartialShape ==
    (tree.has_md /\ pc \in {"enc_field", "dec_field"}) =>
        /\ Len(tree.enc_partial) = Len(Fields)
        /\ \A i \in 1..Len(Fields) :
              (Reached(i) /\ Encoded(i)) =>
                  tree.enc_partial[i] = tree.ctxs[cid[i]].encoded

\* At least one field of the Sequence has a postpone level above 0.
SomePostponed == \E i \in 1..Len(Fields) : Fields[i].postpone_level > 0

\* C28: a two-pass encode writes in one shot.  In a Sequence with a postponed
\* field no byte reaches the live stream while the fields encode; when the
\* encode of a field raises, the live stream is as it was before the encode
\* started (empty); when the encode returns, the stream holds the bytes of
\* all the fields, in declaration order.
C28_OneShot ==
    (call = "encode" /\ SomePostponed) =>
        /\ pc = "enc_field" => stream = <<>>
        /\ (pc = "failed" /\ \E i \in 1..Len(Fields) : ~Encoded(i)) => stream = <<>>
        /\ EncodeReturned =>
              /\ \A i \in 1..Len(Fields) : Encoded(i)
              /\ stream = Join(io)

\* The encode of the third field invoked raised after two fields had encoded a
\* byte each into their scratch streams: nothing is on the live stream.
C28_Witness ==
    /\ call = "encode" /\ SomePostponed
    /\ pc = "failed" /\ Len(invoked) = 3
    /\ Len(io[invoked[1]].p) = 1 /\ Len(io[invoked[2]].p) = 1
    /\ ~Encoded(invoked[3])
    /\ stream = <<>>

\* C29: the order of a two-pass encode.  The fields are invoked in ascending
\* postpone level, the fields of one level in declaration order, each once;
\* so when a field is invoked, enc_partial holds the bytes of every field of
\* its level declared before it.
C29_EncodeOrder ==
    (call = "encode" /\ SomePostponed) =>
        /\ \A a, b \in 1..Len(invoked) :
              a < b =>
                  \/ Fields[invoked[a]].postpone_level < Fields[invoked[b]].postpone_level
                  \/ /\ Fields[invoked[a]].postpone_level = Fields[invoked[b]].postpone_level
                     /\ invoked[a] < invoked[b]
        /\ EncodeReturned => \A i \in 1..Len(Fields) : Reached(i)
        /\ (pc = "enc_field" /\ todo # <<>>) =>
              \A j \in 1..(Head(todo) - 1) :
                  Fields[j].postpone_level = Fields[Head(todo)].postpone_level =>
                      /\ Encoded(j)
                      /\ tree.enc_partial[j] = io[j]

\* An encode returned after invoking the third field, then the first, then
\* the second: levels 1, 2 and 0.
C29_Witness ==
    /\ P = FreeSequence /\ levels = <<1, 2, 0>>
    /\ EncodeReturned
    /\ invoked = <<3, 1, 2>>

\* C30: forward value references on encode.  Before the encode of the first
\* field is invoked, every field has its child context, and the context of a
\* field the user supplied a value for holds that value; so the count of
\* CountPrefixed, declared before data, encodes the length of data's value.
C30_ForwardReference ==
    /\ (call = "encode" /\ pc = "enc_field" /\ invoked = <<>>) =>
          /\ Len(cid) = Len(Fields)
          /\ \A i \in 1..Len(Fields) :
                /\ cid[i] \in 1..Len(tree.ctxs)
                /\ obj[i] # None => tree.ctxs[cid[i]].value = obj[i]
    /\ (P = CountPrefixed /\ call = "encode" /\ invoked = <<1>> /\ pc = "enc_field") =>
          /\ IsBytes(uval)
          /\ io[1] = BytesV(<<Len(uval.p)>>)

\* The count of CountPrefixed has encoded the length of a data value of two
\* bytes, and data has not been invoked yet.
C30_Witness ==
    /\ P = CountPrefixed /\ call = "encode" /\ pc = "enc_field"
    /\ invoked = <<1>> /\ todo = <<2>>
    /\ Len(uval.p) = 2
    /\ tree.ctxs[cid[2]].value = uval
    /\ io[1] = BytesV(<<2>>)

====
